---- MODULE Spec2Model ----
(***************************************************************************)
(* Capture - cache - orchestration pipeline of looker.                     *)
(*                                                                         *)
(*   SpecKey      ScreenshotCache.generateKey as a pure function           *)
(*   SpecCache    one ScreenshotCache object driven by concurrent callers  *)
(*   SpecCapture  captureScreenshots (pLimit(3), retry, cache, browser)    *)
(*   SpecRun      run(): Phase A and Phase B of the analysis (pLimit(5))   *)
(***************************************************************************)
EXTENDS Integers, Sequences, FiniteSets, TLC

VARIABLES
    \* --- SpecKey: two generateKey requests and the keys computed for them
    req1, req2, key1, key2, kpc

keyVars == <<req1, req2, key1, key2, kpc>>

VARIABLES
    \* --- the ScreenshotCache object and the file system under its directory
    disabled,       \* this.disabled
    manifest,       \* this.manifest.entries: key -> entry
    inited,         \* init() has been awaited
    cacheDirExists, \* the cache directory exists
    diskManifest,   \* <cacheDir>/manifest.json
    cacheFiles,     \* the other files of the cache directory: file name -> bytes
    cacheCall,      \* caller -> the cache call it is in, or its last one
    \* --- history of the cache, for the properties
    returnedKeys,   \* keys whose setCached has returned and no clearCache has removed
    roundTrip,      \* the setCached call a getCached directly follows
    lastGet         \* the getCached call that has just returned, and its result

cacheVars == <<disabled, manifest, inited, cacheDirExists, diskManifest, cacheFiles,
               cacheCall, returnedKeys, roundTrip, lastGet>>

VARIABLES
    \* --- run() up to the end of captureScreenshots
    noCache,        \* config.noCache
    reanalyze,      \* config.reanalyze
    runNo,          \* 1 in the first run over the cache directory, 2 in the run after it
    cacheFound,     \* the manifest and the image files the run found in the cache
    runPc,          \* where run() is
    tpc,            \* capture task -> where the task is
    attempt,        \* capture task -> the attempt of retryWithBackoff it is in
    cacheKey,       \* capture task -> the cache key it has computed
    tbuf,           \* capture task -> the image it holds (cached / screenshot)
    leaked,         \* browser contexts that no attempt will close any more
    resultEntries,  \* result.entries: <<url, viewport name>> -> entry
    workFiles       \* ./screenshots: path -> bytes

captureVars == <<noCache, reanalyze, runNo, cacheFound, runPc, tpc, attempt, cacheKey, tbuf, leaked,
                 resultEntries, workFiles>>

VARIABLES
    \* --- run() from the end of captureScreenshots on
    screenshots,    \* captureResult.entries: url -> the viewport names it has entries for
    fileExists,     \* the <<url, viewport name>> whose working file exists
    phase,          \* where run() is
    limitQueue,     \* analysisLimit: the tasks waiting, in order
    limitActive,    \* analysisLimit: running task -> the attempt it is in
    settled,        \* task whose promise has settled -> how its body ended
    analyses,       \* url -> the viewport names in pageResult.analyses
    errors,         \* url -> pageResult.errors
    crossViewport,  \* url -> pageResult.crossViewportAnalysis
    providerFailures, \* the provider calls that have failed so far
    apiKey          \* whether config.analysis.apiKey or the environment holds a key

analysisVars == <<screenshots, fileExists, phase, limitQueue, limitActive, settled, analyses,
                  errors, crossViewport, providerFailures, apiKey>>

VARIABLES
    \* --- one call retryWithBackoff(fn, opts)
    optsAttempts,   \* opts.attempts
    baseDelayMs,    \* opts.baseDelayMs
    maxDelayMs,     \* opts.maxDelayMs
    delay,          \* the delay of the sleep that was begun last, 0 before the first
    failsFirst,     \* fn rejects on its first failsFirst calls and resolves after them
    onRetry,        \* opts.onRetry: "none", or a callback that "returns" or "throws"
    rpc,            \* where the call is
    rAttempt,       \* the loop variable attempt
    invocations,    \* how often fn has been called
    observed,       \* the calls of onRetry so far: <<[error, attempt], ...>>
    lastError,      \* the variable lastError
    retryOutcome    \* the value returned or the error thrown

retryVars == <<optsAttempts, baseDelayMs, maxDelayMs, delay, failsFirst, onRetry, rpc, rAttempt, invocations, observed,
               lastError, retryOutcome>>

VARIABLES
    \* --- one call of a function that reads and writes nothing but its arguments
    input,          \* the arguments
    output          \* what the call returned, <<>> before it has

callVars == <<input, output>>

vars == <<keyVars, cacheVars, captureVars, analysisVars, retryVars, callVars>>

(***************************************************************************)
(* JavaScript values, as far as JSON.stringify looks at them.              *)
(***************************************************************************)
Str(s)    == [t |-> "str", s |-> s]
Num(n)    == [t |-> "num", n |-> n]
Bool(b)   == [t |-> "bool", b |-> b]
Undefined == [t |-> "undef"]
Arr(a)    == [t |-> "arr", a |-> a]
\* an object is its own properties in insertion order: <<[k |-> name, v |-> value], ...>>
Obj(f)    == [t |-> "obj", f |-> f]
Prop(k, v) == [k |-> k, v |-> v]

\* Object.keys(o): own property names in insertion order
ObjectKeys(o) == [i \in 1..Len(o.f) |-> o.f[i].k]

\* o[P]: the value of property P, undefined when o has no such property
Get(o, P) ==
    IF \E i \in 1..Len(o.f) : o.f[i].k = P
    THEN o.f[CHOOSE i \in 1..Len(o.f) : o.f[i].k = P].v
    ELSE Undefined

\* The property names that occur in a request, in UTF-16 code unit order
\* (the order Array.prototype.sort() uses when it is given no comparator).
CodeUnitOrder ==
    <<"captureOpts", "darkMode", "delay", "height", "hideSelectors", "name",
      "noAnimations", "scrollReveal", "timeout", "url", "viewport", "waitFor", "width">>

\* Array.prototype.sort() on an array of property names
SortNames(names) ==
    LET present == {names[i] : i \in 1..Len(names)}
        idx     == {i \in 1..Len(CodeUnitOrder) : CodeUnitOrder[i] \in present}
        nth(n)  == CHOOSE i \in idx : Cardinality({j \in idx : j < i}) = n - 1
    IN  [n \in 1..Cardinality(idx) |-> CodeUnitOrder[nth(n)]]

RECURSIVE JoinComma(_)
JoinComma(parts) ==
    IF parts = <<>> THEN <<>>
    ELSE IF Len(parts) = 1 THEN Head(parts)
    ELSE Head(parts) \o <<",">> \o JoinComma(Tail(parts))

\* JSON.stringify(value, K) with an ARRAY replacer K (the property list): the text
\* as a sequence of tokens. K filters the properties of EVERY object of the value,
\* nested ones included, and fixes their order; a property whose value is undefined
\* is left out; array elements are all kept.
RECURSIVE SerializeJSONProperty(_, _)
SerializeJSONProperty(value, K) ==
    CASE value.t = "str"  -> <<"\"", value.s, "\"">>
      [] value.t = "num"  -> <<ToString(value.n)>>
      [] value.t = "bool" -> <<IF value.b THEN "true" ELSE "false">>
      [] value.t = "arr"  ->
            <<"[">>
            \o JoinComma([i \in 1..Len(value.a) |->
                    IF value.a[i].t = "undef" THEN <<"null">>
                    ELSE SerializeJSONProperty(value.a[i], K)])
            \o <<"]">>
      [] value.t = "obj"  ->
            LET kept == SelectSeq(K, LAMBDA P : Get(value, P).t # "undef")
            IN  <<"{">>
                \o JoinComma([i \in 1..Len(kept) |->
                        <<"\"", kept[i], "\"", ":">>
                        \o SerializeJSONProperty(Get(value, kept[i]), K)])
                \o <<"}">>

\* JSON.stringify(value, replacer)
JSONStringifyAsInserted(value, replacer) ==
    LET nested(i) == IF value.f[i].v.t = "obj" THEN ObjectKeys(value.f[i].v) ELSE <<>>
        RECURSIVE from(_)
        from(i) == IF i > Len(value.f) THEN <<>> ELSE nested(i) \o from(i + 1)
    IN  SerializeJSONProperty(value, ObjectKeys(value) \o from(1))

JSONStringify(value, replacer) == SerializeJSONProperty(value, replacer)

\* createHash('sha256').update(data).digest('hex').slice(0, 16): the digest is
\* treated as collision free, so two keys are equal exactly when the hashed
\* texts are equal.
Sha256Hex16(data) == [sha256 |-> data]

\* a viewport object: { name, width, height }, or the same fields inserted
\* in the order height, width, name when the viewport is marked so
ViewportObj(vp) ==
    IF "inserted" \in DOMAIN vp
    THEN Obj(<<Prop("height", Num(vp.height)), Prop("width", Num(vp.width)),
               Prop("name", Str(vp.name))>>)
    ELSE Obj(<<Prop("name", Str(vp.name)), Prop("width", Num(vp.width)),
               Prop("height", Num(vp.height))>>)

\* ScreenshotCache.generateKey(url, viewport, captureOpts)
generateKey(url, viewport, captureOpts) ==
    LET o    == Obj(<<Prop("url", Str(url)), Prop("viewport", ViewportObj(viewport)),
                      Prop("captureOpts", captureOpts)>>)
        data == JSONStringify(o, SortNames(ObjectKeys(o)))
    IN  Sha256Hex16(data)

(***************************************************************************)
(* Inputs of generateKey.                                                  *)
(***************************************************************************)
\* the pages of the site: the URL as the crawler hands it on, and new URL(url).pathname
\* as its sequence of "/" and of the texts between them
Site ==
    <<[url |-> "https://a.test/", pathname |-> <<"/">>],
      [url |-> "https://a.test/pricing", pathname |-> <<"/", "pricing">>],
      [url |-> "https://b.test/", pathname |-> <<"/">>],
      [url |-> "https://a.test/docs/api", pathname |-> <<"/", "docs", "/", "api">>],
      [url |-> "https://a.test/?page=2", pathname |-> <<"/">>],
      [url |-> "https://a.test/docs-api", pathname |-> <<"/", "docs", "-", "api">>]>>

Urls == [i \in 1..Len(Site) |-> Site[i].url]

\* the number of URLs a request (and a run) draws from
MaxUrls == 2

UrlSet == {Urls[i] : i \in 1..MaxUrls}

Mobile  == [name |-> "mobile", width |-> 375, height |-> 812]
Desktop == [name |-> "desktop", width |-> 1440, height |-> 900]

\* Mobile, Desktop and the viewports that differ from Mobile in one field
KeyViewports ==
    {Mobile, Desktop,
     [Mobile EXCEPT !.width = 768], [Mobile EXCEPT !.height = 1024],
     [Mobile EXCEPT !.name = "phone"]}

OptionFields ==
    <<"delay", "waitFor", "hideSelectors", "noAnimations", "darkMode", "timeout",
      "scrollReveal">>

BaseOption(f) ==
    CASE f = "delay"         -> Num(1000)
      [] f = "waitFor"       -> Str("#app")
      [] f = "hideSelectors" -> Arr(<<Str(".ad")>>)
      [] f = "noAnimations"  -> Bool(TRUE)
      [] f = "darkMode"      -> Bool(FALSE)
      [] f = "timeout"       -> Num(30000)
      [] f = "scrollReveal"  -> Bool(TRUE)

OtherOption(f) ==
    CASE f = "delay"         -> Num(2000)
      [] f = "waitFor"       -> Str("#main")
      [] f = "hideSelectors" -> Arr(<<Str(".ad"), Str(".banner")>>)
      [] f = "noAnimations"  -> Bool(FALSE)
      [] f = "darkMode"      -> Bool(TRUE)
      [] f = "timeout"       -> Num(60000)
      [] f = "scrollReveal"  -> Bool(FALSE)

BaseOptions == Obj([i \in 1..Len(OptionFields) |-> Prop(OptionFields[i], BaseOption(OptionFields[i]))])

\* BaseOptions with the value of field number j changed
OptionsWith(j) ==
    Obj([i \in 1..Len(OptionFields) |->
            Prop(OptionFields[i],
                 IF i = j THEN OtherOption(OptionFields[i]) ELSE BaseOption(OptionFields[i]))])

\* BaseOptions with its properties inserted in the reverse order
ReversedOptions ==
    Obj([i \in 1..Len(OptionFields) |->
            LET f == OptionFields[Len(OptionFields) + 1 - i] IN Prop(f, BaseOption(f))])

KeyOptions ==
    {Undefined, BaseOptions, ReversedOptions} \cup {OptionsWith(j) : j \in 1..Len(OptionFields)}

Requests == [url : UrlSet, viewport : KeyViewports, captureOpts : KeyOptions]

NoKey == [sha256 |-> <<>>]

\* the variables of generateKey's specification, at rest
KeyIdle ==
    /\ req1 = [url |-> Urls[1], viewport |-> Mobile, captureOpts |-> Undefined]
    /\ req2 = [url |-> Urls[1], viewport |-> Mobile, captureOpts |-> Undefined]
    /\ key1 = NoKey
    /\ key2 = NoKey
    /\ kpc = "off"

EmptyMap == [x \in {} |-> 0]
Has(f, x) == x \in DOMAIN f
Put(f, x, v) == [y \in DOMAIN f \cup {x} |-> IF y = x THEN v ELSE f[y]]
Del(f, x) == [y \in DOMAIN f \ {x} |-> f[y]]

NoDoc == [kind |-> "none", entries |-> EmptyMap]
NoRoundTrip == [caller |-> 0, key |-> NoKey, bytes |-> ""]
NoGet == [caller |-> 0, key |-> NoKey, kind |-> "none", bytes |-> ""]

\* the variables of the cache, when no cache takes part
CacheIdle ==
    /\ disabled = FALSE
    /\ manifest = EmptyMap
    /\ inited = FALSE
    /\ cacheDirExists = FALSE
    /\ diskManifest = NoDoc
    /\ cacheFiles = EmptyMap
    /\ cacheCall = EmptyMap
    /\ returnedKeys = {}
    /\ roundTrip = NoRoundTrip
    /\ lastGet = NoGet

\* the variables of run(), when no run takes part
CaptureIdle ==
    /\ noCache = FALSE
    /\ reanalyze = FALSE
    /\ runNo = 0
    /\ cacheFound = [doc |-> NoDoc, files |-> EmptyMap]
    /\ runPc = "off"
    /\ tpc = EmptyMap
    /\ attempt = EmptyMap
    /\ cacheKey = EmptyMap
    /\ tbuf = EmptyMap
    /\ leaked = 0
    /\ resultEntries = EmptyMap
    /\ workFiles = EmptyMap

\* the variables of the analysis, when no analysis takes part
AnalysisIdle ==
    /\ screenshots = EmptyMap
    /\ fileExists = {}
    /\ phase = "off"
    /\ limitQueue = <<>>
    /\ limitActive = EmptyMap
    /\ settled = EmptyMap
    /\ analyses = EmptyMap
    /\ errors = EmptyMap
    /\ crossViewport = EmptyMap
    /\ providerFailures = 0
    /\ apiKey = FALSE

\* no function is called
CallIdle ==
    /\ input = <<>>
    /\ output = <<>>

NoOutcome == [kind |-> "none"]

\* the variables of retryWithBackoff, when it is not called
RetryIdle ==
    /\ optsAttempts = 0
    /\ baseDelayMs = 0
    /\ maxDelayMs = 0
    /\ delay = 0
    /\ failsFirst = 0
    /\ onRetry = "none"
    /\ rpc = "off"
    /\ rAttempt = 0
    /\ invocations = 0
    /\ observed = <<>>
    /\ lastError = NoOutcome
    /\ retryOutcome = NoOutcome

InitKey ==
    /\ req1 \in Requests
    /\ req2 \in Requests
    /\ key1 = NoKey
    /\ key2 = NoKey
    /\ kpc = "start"
    /\ CacheIdle
    /\ CaptureIdle
    /\ AnalysisIdle
    /\ RetryIdle
    /\ CallIdle

\* both requests are given to generateKey
GenerateKeys ==
    /\ kpc = "start"
    /\ key1' = generateKey(req1.url, req1.viewport, req1.captureOpts)
    /\ key2' = generateKey(req2.url, req2.viewport, req2.captureOpts)
    /\ kpc' = "done"
    /\ UNCHANGED <<req1, req2, cacheVars, captureVars, analysisVars, retryVars, callVars>>

NextKey == GenerateKeys

SpecKey == InitKey /\ [][NextKey]_vars

\* the viewport with its fields inserted in the order height, width, name
ReversedViewport(vp) ==
    [name |-> vp.name, width |-> vp.width, height |-> vp.height,
     inserted |-> "height, width, name"]

\* the object with its properties inserted in the reverse order
ReversedObject(o) ==
    IF o.t = "obj" THEN Obj([i \in 1..Len(o.f) |-> o.f[Len(o.f) + 1 - i]]) ELSE o

\* generateKey is given a request, and the same request again with its
\* viewport or its capture options (or both) built in another insertion order
InitKeyOrder ==
    /\ req1 \in Requests
    /\ req2 \in [url : {req1.url},
                 viewport : {req1.viewport, ReversedViewport(req1.viewport)},
                 captureOpts : {req1.captureOpts, ReversedObject(req1.captureOpts)}]
    /\ key1 = NoKey
    /\ key2 = NoKey
    /\ kpc = "start"
    /\ CacheIdle
    /\ CaptureIdle
    /\ AnalysisIdle
    /\ RetryIdle
    /\ CallIdle

SpecKeyOrder == InitKeyOrder /\ [][NextKey]_vars

(***************************************************************************)
(* C1                                                                      *)
(***************************************************************************)
\* the fields of two capture-option objects that hold different values
DifferingOptionFields(a, b) ==
    IF a.t = "undef" \/ b.t = "undef" THEN {}
    ELSE {i \in 1..Len(OptionFields) : Get(a, OptionFields[i]) # Get(b, OptionFields[i])}

\* the two requests differ in exactly one of url, viewport.width, viewport.height
\* or one capture-option field (and in nothing else)
DifferInExactlyOne(a, b) ==
    /\ a.viewport.name = b.viewport.name
    /\ (a.captureOpts.t = "undef") = (b.captureOpts.t = "undef")
    /\ Cardinality(
          {x \in {"url"} : a.url # b.url}
          \cup {x \in {"width"} : a.viewport.width # b.viewport.width}
          \cup {x \in {"height"} : a.viewport.height # b.viewport.height}
          \cup {OptionFields[i] : i \in DifferingOptionFields(a.captureOpts, b.captureOpts)}) = 1

\* C1: two requests that differ in exactly one of url, viewport.width,
\* viewport.height or a single capture-option field get different keys.
C1_KeySensitive ==
    (kpc = "done" /\ DifferInExactlyOne(req1, req2)) => key1 # key2

(***************************************************************************)
(* ScreenshotCache.                                                        *)
(*                                                                         *)
(* The manifest document is kept as the entries it holds: every value of   *)
(* an entry is a string or an integer, which JSON.stringify and JSON.parse *)
(* carry over unchanged.  Date.now() (timestamp) is left out: nothing      *)
(* reads it.  A writeFile of the manifest takes its text when it is called *)
(* and puts it on disk when it completes; two writeFile calls in flight on *)
(* the same path complete in either order.                                 *)
(***************************************************************************)
\* `${key}.png`
FileName(key) == [png |-> key]

ManifestEntryUnwritten(url, viewport, key) ==
    [url |-> url, viewport |-> viewport, filePath |-> FileName(NoKey)]

\* lines 92-97: the entry names the file that line 90 has written
ManifestEntry(url, viewport, key) ==
    [url |-> url, viewport |-> viewport, filePath |-> FileName(key)]

Doc(entries) == [kind |-> "doc", entries |-> entries]

NoResult == [kind |-> "none", bytes |-> ""]
Miss     == [kind |-> "miss", bytes |-> ""]
Hit(b)   == [kind |-> "hit", bytes |-> b]

Call(op, step, key, bytes, entry, snapshot, result) ==
    [op |-> op, step |-> step, key |-> key, bytes |-> bytes, entry |-> entry,
     snapshot |-> snapshot, result |-> result]

NoEntry == ManifestEntry("", Mobile, NoKey)
IdleCall == Call("idle", "returned", NoKey, "", NoEntry, EmptyMap, NoResult)

\* getCached(k) of caller c returns `result`
GetReturns(c, k, result) ==
    lastGet' = [caller |-> c, key |-> k, kind |-> result.kind, bytes |-> result.bytes]

\* caller c's setCached or clearCache returns or throws: the caller is free again
Return(c) ==
    /\ cacheCall' = [cacheCall EXCEPT ![c] = IdleCall]
    /\ lastGet' = NoGet

\* the caller is in no cache call
CallerFree(c) == cacheCall[c].step = "returned"

\* this.manifest.entries when the manifest file said {"entries": 1} (or another
\* number, a string or true): a value that has no property named by a key,
\* and on which line 92 cannot create one.  It is written as a mapping that
\* holds no key of a request.
PrimitiveEntries == [x \in {[sha256 |-> <<"entries is a primitive">>]} |-> 0]

\* init(), lines 40-49: the entries the manifest file yields.  A file that is
\* not JSON ends in the catch; so does JSON without entries or with entries
\* null, where Object.keys(this.manifest.entries) throws.  For entries that are
\* a primitive Object.keys returns [], and the parsed manifest is kept.
LoadManifest(doc) ==
    CASE doc.kind = "doc" -> doc.entries
      [] doc.kind = "entriesPrimitive" -> PrimitiveEntries
      [] OTHER -> EmptyMap

\* init()
CacheInitCall ==
    /\ ~inited
    /\ inited' = TRUE
    /\ IF disabled
       THEN UNCHANGED <<manifest, cacheDirExists>>
       ELSE /\ cacheDirExists' = TRUE
            /\ manifest' = IF diskManifest.kind = "none" THEN manifest
                           ELSE LoadManifest(diskManifest)
    /\ lastGet' = NoGet
    /\ UNCHANGED <<disabled, diskManifest, cacheFiles, cacheCall, returnedKeys, roundTrip>>

\* another caller is inside a setCached of key k or inside a clearCache
OtherWriter(c, k) ==
    \E o \in DOMAIN cacheCall \ {c} :
        /\ cacheCall[o].step # "returned"
        /\ \/ cacheCall[o].op = "clear"
           \/ cacheCall[o].op = "set" /\ cacheCall[o].key = k

\* The setCached call that the next cache call, a getCached of the same caller
\* and key, directly follows: no setCached of the same key and no clearCache
\* overlaps it, and no other call begins in between.
TrackRoundTrip(c, op, k, b) ==
    CASE op = "clear" -> NoRoundTrip
      [] op = "set"   ->
            IF ~OtherWriter(c, k) THEN [caller |-> c, key |-> k, bytes |-> b]
            ELSE NoRoundTrip
      [] op = "get"   ->
            IF roundTrip.caller = c /\ roundTrip.key = k THEN roundTrip ELSE NoRoundTrip

\* line 68: delete this.manifest.entries[key]
KeepStaleEntry(m, k) == m

DropStaleEntry(m, k) == Del(m, k)

\* lines 68-69: the manifest file after the stale entry has been deleted from
\* this.manifest to m: saveManifest is not called
StaleRemovalSaved(doc, m) == Doc(m)

StaleRemovalOnDisk(doc, m) == doc

\* getCached(key), lines 61-70: up to the await of readFile
GetCachedBegin(c, k) ==
    /\ inited
    /\ CallerFree(c)
    /\ roundTrip' = TrackRoundTrip(c, "get", k, "")
    /\ IF disabled \/ ~Has(manifest, k)
       THEN /\ cacheCall' = cacheCall
            /\ GetReturns(c, k, Miss)
            /\ UNCHANGED <<manifest, diskManifest>>
       ELSE IF ~Has(cacheFiles, manifest[k].filePath)
       THEN /\ manifest' = DropStaleEntry(manifest, k)
            /\ diskManifest' = StaleRemovalOnDisk(diskManifest, manifest')
            /\ cacheCall' = cacheCall
            /\ GetReturns(c, k, Miss)
       ELSE /\ cacheCall' = [cacheCall EXCEPT ![c] =
                                Call("get", "readFile", k, "", manifest[k], EmptyMap, NoResult)]
            /\ lastGet' = NoGet
            /\ UNCHANGED <<manifest, diskManifest>>
    /\ UNCHANGED <<disabled, inited, cacheDirExists, cacheFiles, returnedKeys>>

\* getCached(key), lines 72-78: readFile completes
GetCachedRead(c) ==
    /\ cacheCall[c].op = "get"
    /\ cacheCall[c].step = "readFile"
    /\ LET file == cacheCall[c].entry.filePath
       IN  /\ GetReturns(c, cacheCall[c].key,
                          IF Has(cacheFiles, file) THEN Hit(cacheFiles[file]) ELSE Miss)
           /\ cacheCall' = [cacheCall EXCEPT ![c] = IdleCall]
    /\ UNCHANGED <<disabled, manifest, inited, cacheDirExists, diskManifest, cacheFiles,
                   returnedKeys, roundTrip>>

\* line 92: this.manifest.entries[key] = {...}
SetCachedEntryDropped(m, k, entry) == m
SetCachedEntry(m, k, entry) == Put(m, k, entry)

\* setCached(key, screenshot, url, viewport), lines 87-99: the image file is
\* written (or the write fails because the directory is missing: the call
\* throws), the entry is put into the manifest (or cannot be, because entries
\* is a primitive: the module is in strict mode and the assignment throws a
\* TypeError), and saveManifest takes the text of the manifest and calls
\* writeFile.  The call touches nothing before its
\* first writeFile completes, so it is taken to begin there.
SetCachedWrite(c, k, b, url, viewport) ==
    /\ inited
    /\ CallerFree(c)
    /\ lastGet' = NoGet
    /\ IF ~cacheDirExists
       THEN /\ roundTrip' = NoRoundTrip
            /\ UNCHANGED <<manifest, cacheFiles, cacheCall>>
       ELSE IF manifest = PrimitiveEntries
       THEN /\ roundTrip' = NoRoundTrip
            /\ cacheFiles' = Put(cacheFiles, FileName(k), b)
            /\ UNCHANGED <<manifest, cacheCall>>
       ELSE LET m == SetCachedEntry(manifest, k, ManifestEntry(url, viewport, k))
            IN  /\ roundTrip' = TrackRoundTrip(c, "set", k, b)
                /\ cacheFiles' = Put(cacheFiles, FileName(k), b)
                /\ manifest' = m
                /\ cacheCall' = [cacheCall EXCEPT ![c] =
                        Call("set", "saveManifest", k, "", NoEntry, m, NoResult)]
    /\ UNCHANGED <<disabled, inited, cacheDirExists, diskManifest, returnedKeys>>

\* saveManifest(), lines 111-114: its writeFile completes
saveManifestSkipped(c) == diskManifest

saveManifest(c) ==
    IF cacheDirExists THEN Doc(cacheCall[c].snapshot) ELSE diskManifest

\* setCached, lines 99-102: the manifest is on disk and the call returns
SetCachedSaved(c) ==
    /\ cacheCall[c].op = "set"
    /\ cacheCall[c].step = "saveManifest"
    /\ diskManifest' = saveManifest(c)
    /\ Return(c)
    /\ returnedKeys' = IF Has(manifest, cacheCall[c].key)
                       THEN returnedKeys \cup {cacheCall[c].key}
                       ELSE returnedKeys
    /\ UNCHANGED <<disabled, manifest, inited, cacheDirExists, cacheFiles, roundTrip>>

\* clearCache(), lines 106-107: the manifest is emptied and saveManifest called
ClearCacheBegin(c) ==
    /\ inited
    /\ CallerFree(c)
    /\ manifest' = EmptyMap
    /\ roundTrip' = TrackRoundTrip(c, "clear", NoKey, "")
    /\ returnedKeys' = {}
    /\ cacheCall' = [cacheCall EXCEPT ![c] =
            Call("clear", "saveManifest", NoKey, "", NoEntry, EmptyMap, NoResult)]
    /\ lastGet' = NoGet
    /\ UNCHANGED <<disabled, inited, cacheDirExists, diskManifest, cacheFiles>>

\* clearCache(), lines 107-109: the write completes, or fails without a directory
ClearCacheSaved(c) ==
    /\ cacheCall[c].op = "clear"
    /\ cacheCall[c].step = "saveManifest"
    /\ diskManifest' = saveManifest(c)
    /\ Return(c)
    /\ UNCHANGED <<disabled, manifest, inited, cacheDirExists, cacheFiles, returnedKeys,
                   roundTrip>>

(***************************************************************************)
(* SpecCache: a cache object, constructed over a directory in one of the   *)
(* states an earlier run can leave, and MaxCallers callers that each await *)
(* one cache call after the other.                                         *)
(***************************************************************************)
MaxCallers == 2

Callers == 1..MaxCallers

Viewports == <<Mobile, Desktop>>

ViewportSet == {Viewports[i] : i \in 1..Len(Viewports)}

Images == {"png-A", "png-B"}

\* the capture options of the run
RunOptions == BaseOptions

OldKey == generateKey(Urls[1], Mobile, RunOptions)

\* the cache directory as found: absent; empty; left by a run that cached OldKey;
\* the same with the image file gone; with a manifest that is not JSON; with a
\* manifest that is JSON without entries; with a manifest whose entries are a
\* number
InitStores ==
    {[dir |-> FALSE, doc |-> NoDoc, files |-> EmptyMap],
     [dir |-> TRUE, doc |-> NoDoc, files |-> EmptyMap],
     [dir |-> TRUE, doc |-> Doc(Put(EmptyMap, OldKey, ManifestEntry(Urls[1], Mobile, OldKey))),
      files |-> Put(EmptyMap, FileName(OldKey), "png-A")],
     [dir |-> TRUE, doc |-> Doc(Put(EmptyMap, OldKey, ManifestEntry(Urls[1], Mobile, OldKey))),
      files |-> EmptyMap],
     [dir |-> TRUE, doc |-> [kind |-> "unparseable", entries |-> EmptyMap], files |-> EmptyMap],
     [dir |-> TRUE, doc |-> [kind |-> "noEntries", entries |-> EmptyMap], files |-> EmptyMap],
     [dir |-> TRUE, doc |-> [kind |-> "entriesPrimitive", entries |-> EmptyMap],
      files |-> EmptyMap]}

InitCache ==
    /\ KeyIdle
    /\ CaptureIdle
    /\ AnalysisIdle
    /\ RetryIdle
    /\ CallIdle
    /\ disabled \in BOOLEAN
    /\ manifest = EmptyMap
    /\ inited = FALSE
    /\ \E s \in InitStores :
          /\ disabled => s.doc.kind \in {"none", "doc"} /\ (s.doc.kind = "doc" => s.files # EmptyMap)
          /\ cacheDirExists = s.dir
          /\ diskManifest = s.doc
          /\ cacheFiles = s.files
    /\ cacheCall = [c \in Callers |-> IdleCall]
    /\ returnedKeys = {}
    /\ roundTrip = NoRoundTrip
    /\ lastGet = NoGet

\* what the callers ask for: two pages, each with the key generateKey gives it
CacheRequests ==
    {[url |-> Urls[1], viewport |-> Mobile, key |-> OldKey],
     [url |-> Urls[2], viewport |-> Desktop,
      key |-> generateKey(Urls[2], Desktop, RunOptions)]}

NextCache ==
    \/ CacheInitCall /\ UNCHANGED <<keyVars, captureVars, analysisVars, retryVars, callVars>>
    \/ \E c \in Callers, r \in CacheRequests :
          GetCachedBegin(c, r.key)
          /\ UNCHANGED <<keyVars, captureVars, analysisVars, retryVars, callVars>>
    \/ \E c \in Callers :
          GetCachedRead(c) /\ UNCHANGED <<keyVars, captureVars, analysisVars, retryVars, callVars>>
    \/ \E c \in Callers, r \in CacheRequests, b \in Images :
          SetCachedWrite(c, r.key, b, r.url, r.viewport)
          /\ UNCHANGED <<keyVars, captureVars, analysisVars, retryVars, callVars>>
    \/ \E c \in Callers :
          SetCachedSaved(c) /\ UNCHANGED <<keyVars, captureVars, analysisVars, retryVars, callVars>>
    \/ \E c \in Callers :
          ClearCacheBegin(c) /\ UNCHANGED <<keyVars, captureVars, analysisVars, retryVars, callVars>>
    \/ \E c \in Callers :
          ClearCacheSaved(c) /\ UNCHANGED <<keyVars, captureVars, analysisVars, retryVars, callVars>>

SpecCache == InitCache /\ [][NextCache]_vars

\* the same over a cache directory from which nothing has deleted an image
\* file: every entry of the manifest document has its file
InitCacheIntact ==
    /\ InitCache
    /\ \A k \in DOMAIN diskManifest.entries :
          Has(cacheFiles, diskManifest.entries[k].filePath)

SpecCacheIntact == InitCacheIntact /\ [][NextCache]_vars

(***************************************************************************)
(* run(), lines 29-42, and captureScreenshots.                             *)
(*                                                                         *)
(* A capture task is a chain of awaits; a step of a task is what it does   *)
(* between two awaits that another task could see.  An attempt holds a     *)
(* browser context from the completion of newContext() to context.close(); *)
(* the sleep of retryWithBackoff and the call of newContext() are the step *)
(* "newContext".  When Promise.all settles, the finally block closes the   *)
(* browser and captureScreenshots returns or throws: this is part of the   *)
(* step of the task that settled it.  Tasks that are still pending then    *)
(* keep running, as nothing cancels them.                                  *)
(***************************************************************************)
\* types.ts: DEFAULT_CONCURRENCY
DEFAULT_CONCURRENCY == 3

\* capture.ts, line 267: attempts: 3
CaptureAttempts == 3

\* how many browser contexts the attempts of a run may leave open
MaxLeaks == 1

\* urls.flatMap((url) => viewports.map((viewport) => limit(...))): task t
Tasks == 1..(MaxUrls * Len(Viewports))
TaskUrl(t) == Urls[((t - 1) \div Len(Viewports)) + 1]
TaskViewport(t) == Viewports[((t - 1) % Len(Viewports)) + 1]

\* line 150: cache.generateKey(url, viewport, config.capture)
TaskKeys == [t \in Tasks |-> generateKey(TaskUrl(t), TaskViewport(t), RunOptions)]

\* new URL(url).pathname
Pathname(url) == Site[CHOOSE i \in 1..Len(Site) : Site[i].url = url].pathname

\* slugify(url): the pathname without one trailing and one leading "/", every
\* other "/" turned into "-", and 'index' for an empty result
slugify(url) ==
    LET pathname == Pathname(url)
        trimmed  == IF pathname # <<>> /\ pathname[Len(pathname)] = "/"
                    THEN SubSeq(pathname, 1, Len(pathname) - 1) ELSE pathname
        path     == IF trimmed = <<>> THEN <<"index">> ELSE trimmed
        rest     == IF path[1] = "/" THEN Tail(path) ELSE path
        dashed   == [i \in 1..Len(rest) |-> IF rest[i] = "/" THEN "-" ELSE rest[i]]
    IN  IF dashed = <<>> THEN <<"index">> ELSE dashed

\* join(resolve(SCREENSHOT_DIR, slug), `${viewport.name}.png`)
WorkPath(url, viewport) == [dir |-> slugify(url), file |-> viewport.name]

\* page.screenshot({ fullPage: true }) of url in viewport
Shot(url, viewport) == url \o "@" \o viewport.name

\* the screenshots that exceed MAX_IMAGE_DIMENSION or MAX_IMAGE_BYTES
OversizedShots == {Shot(Urls[2], Desktop)}

\* resizeIfNeeded(buffer): the buffer itself when it is within both limits,
\* a re-encoded image otherwise
resizeIfNeeded(buffer) ==
    IF buffer \in OversizedShots THEN "resized:" \o buffer ELSE buffer

\* a ScreenshotEntry (timestamp left out: nothing reads it)
ScreenshotEntryFresh(url, viewport, cached) ==
    [url |-> url, viewport |-> viewport, filePath |-> WorkPath(url, viewport),
     cached |-> FALSE]

ScreenshotEntry(url, viewport, cached) ==
    [url |-> url, viewport |-> viewport, filePath |-> WorkPath(url, viewport),
     cached |-> cached]

\* retryWithBackoff, lines 26-28 and 40: after a failed attempt, throw the
\* error when it was the last attempt, sleep and try again otherwise
retryWithoutLast(n, attempts) == IF n + 1 >= attempts THEN "throw" ELSE "sleep"

retryWithBackoff(n, attempts) == IF n = attempts THEN "throw" ELSE "sleep"

\* pLimit(concurrency): a queued task is run when fewer than `concurrency` are
LimiterAdmitsAll(active, concurrency) == TRUE
LimiterAdmits(active, concurrency) == active < concurrency

InFlight(t) == tpc[t] \notin {"queued", "done", "captureFailed", "cacheFailed"}
ActiveCount == Cardinality({t \in DOMAIN tpc : InFlight(t)})
Queued == {t \in DOMAIN tpc : tpc[t] = "queued"}

\* the limiter runs its next task as soon as one has settled, before any
\* other task continues
StartPending == Queued # {} /\ LimiterAdmits(ActiveCount, DEFAULT_CONCURRENCY)

\* chromium.launch() has returned and browser.close() has not been called
BrowserOpen == runPc = "captureScreenshots"

\* the browser contexts that are open
OpenContexts ==
    IF BrowserOpen THEN Cardinality({t \in DOMAIN tpc : tpc[t] = "page"}) + leaked ELSE 0

\* the cache directories a run may find (see InitStores), with the working
\* file of the cached page present or not
CaptureStores == {s \in InitStores : s.doc.kind \in {"none", "doc"}}

WorkDirs(s) ==
    IF s.files = EmptyMap THEN {EmptyMap}
    ELSE {EmptyMap, Put(EmptyMap, WorkPath(Urls[1], Mobile), "png-A")}

\* --no-cache and --reanalyze
RunConfigs ==
    {[noCache |-> FALSE, reanalyze |-> FALSE], [noCache |-> TRUE, reanalyze |-> FALSE],
     [noCache |-> FALSE, reanalyze |-> TRUE]}

InitCapture ==
    /\ KeyIdle
    /\ AnalysisIdle
    /\ RetryIdle
    /\ CallIdle
    /\ \E cfg \in RunConfigs :
          /\ noCache = cfg.noCache
          /\ reanalyze = cfg.reanalyze
          /\ disabled = cfg.noCache
    /\ manifest = EmptyMap
    /\ inited = FALSE
    /\ \E s \in CaptureStores :
          /\ cacheDirExists = s.dir
          /\ diskManifest = s.doc
          /\ cacheFiles = s.files
          /\ cacheFound = [doc |-> s.doc, files |-> s.files]
          /\ workFiles \in WorkDirs(s)
    /\ cacheCall = [t \in Tasks |-> IdleCall]
    /\ returnedKeys = {}
    /\ roundTrip = NoRoundTrip
    /\ lastGet = NoGet
    /\ runNo = 1
    /\ runPc = "cache.init"
    /\ tpc = [t \in Tasks |-> "queued"]
    /\ attempt = [t \in Tasks |-> 0]
    /\ cacheKey = [t \in Tasks |-> NoKey]
    /\ tbuf = [t \in Tasks |-> ""]
    /\ leaked = 0
    /\ resultEntries = EmptyMap

\* a step that calls nothing of the cache
CacheUntouched ==
    /\ lastGet' = NoGet
    /\ UNCHANGED <<disabled, manifest, inited, cacheDirExists, diskManifest, cacheFiles,
                   cacheCall, returnedKeys, roundTrip>>

\* run(), lines 30-31 and 35-42: the cache is initialised and captureScreenshots
\* called, which launches the browser and hands every task to the limiter
RunCacheInit ==
    /\ runPc = "cache.init"
    /\ CacheInitCall
    /\ runPc' = "captureScreenshots"
    /\ UNCHANGED <<noCache, reanalyze, runNo, cacheFound, tpc, attempt, cacheKey, tbuf, leaked, resultEntries,
                   workFiles>>

\* lines 302-309 and run() lines 35-42: Promise.all(tasks) rejects with the first
\* task that fails and resolves when every task is done; captureScreenshots then
\* closes the browser and throws (run() rejects) or returns (run() goes on to
\* the analysis).  p is the state of the tasks after the step.
PromiseAll(p) ==
    IF runPc # "captureScreenshots" THEN runPc
    ELSE IF \E t \in DOMAIN p : p[t] \in {"captureFailed", "cacheFailed"} THEN "rejected"
    ELSE IF \A t \in DOMAIN p : p[t] = "done" THEN "analysis"
    ELSE runPc

\* the rest of a task step: Promise.all, and the contexts the browser still has
Settle(contexts) ==
    /\ runPc' = PromiseAll(tpc')
    /\ leaked' = IF runPc' = "captureScreenshots" THEN contexts ELSE 0

\* lines 148-153 and 183-185: the limiter runs the task at the head of its queue.
\* The task computes its key and either asks the cache or begins attempt 1.
TaskStart(t) ==
    /\ runPc \in {"captureScreenshots", "rejected"}
    /\ tpc[t] = "queued"
    /\ \A o \in Queued : t <= o
    /\ LimiterAdmits(ActiveCount, DEFAULT_CONCURRENCY)
    /\ cacheKey' = [cacheKey EXCEPT ![t] = TaskKeys[t]]
    /\ IF ~noCache /\ ~reanalyze
       THEN /\ GetCachedBegin(t, TaskKeys[t])
            /\ tpc' = [tpc EXCEPT ![t] =
                          IF cacheCall'[t].op = "get" THEN "getCached" ELSE "newContext"]
            /\ attempt' = [attempt EXCEPT ![t] = IF cacheCall'[t].op = "get" THEN 0 ELSE 1]
       ELSE /\ CacheUntouched
            /\ tpc' = [tpc EXCEPT ![t] = "newContext"]
            /\ attempt' = [attempt EXCEPT ![t] = 1]
    /\ UNCHANGED <<noCache, reanalyze, runNo, cacheFound, runPc, tbuf, leaked, resultEntries, workFiles>>

\* lines 154-155: getCached returns the cached image, or null
TaskCacheRead(t) ==
    /\ ~StartPending
    /\ tpc[t] = "getCached"
    /\ GetCachedRead(t)
    /\ IF lastGet'.kind = "hit"
       THEN /\ tpc' = [tpc EXCEPT ![t] = "restore"]
            /\ tbuf' = [tbuf EXCEPT ![t] = lastGet'.bytes]
            /\ UNCHANGED attempt
       ELSE /\ tpc' = [tpc EXCEPT ![t] = "newContext"]
            /\ attempt' = [attempt EXCEPT ![t] = 1]
            /\ UNCHANGED tbuf
    /\ UNCHANGED <<noCache, reanalyze, runNo, cacheFound, runPc, cacheKey, leaked, resultEntries, workFiles>>

\* lines 161-164: if (!existsSync(filePath)) await writeFile(filePath, cached)
RestoreNothing(files, filePath, cached) == files
RestoreWorkFile(files, filePath, cached) ==
    IF Has(files, filePath) THEN files ELSE Put(files, filePath, cached)

\* lines 156-178: the working file is written if there is none, the entry is
\* recorded as cached, and the task is done
TaskRestored(t) ==
    /\ ~StartPending
    /\ tpc[t] = "restore"
    /\ LET filePath == WorkPath(TaskUrl(t), TaskViewport(t))
       IN  /\ workFiles' = RestoreWorkFile(workFiles, filePath, tbuf[t])
           /\ resultEntries' = Put(resultEntries, <<TaskUrl(t), TaskViewport(t).name>>,
                                   ScreenshotEntry(TaskUrl(t), TaskViewport(t), TRUE))
    /\ tpc' = [tpc EXCEPT ![t] = "done"]
    /\ tbuf' = [tbuf EXCEPT ![t] = ""]
    /\ Settle(leaked)
    /\ CacheUntouched
    /\ UNCHANGED <<noCache, reanalyze, runNo, cacheFound, attempt, cacheKey>>

\* the attempt of task t has thrown, leaving `contexts` leaked contexts:
\* retryWithBackoff sleeps and calls the attempt again, or throws after the
\* last attempt, which rejects the task
AttemptThrows(t, contexts) ==
    /\ IF retryWithBackoff(attempt[t], CaptureAttempts) = "throw"
       THEN /\ tpc' = [tpc EXCEPT ![t] = "captureFailed"]
            /\ attempt' = [attempt EXCEPT ![t] = 0]
       ELSE /\ tpc' = [tpc EXCEPT ![t] = "newContext"]
            /\ attempt' = [attempt EXCEPT ![t] = attempt[t] + 1]
    /\ Settle(contexts)
    /\ CacheUntouched
    /\ UNCHANGED <<noCache, reanalyze, runNo, cacheFound, cacheKey, tbuf, resultEntries, workFiles>>

\* lines 185-195: newContext, addCookies and newPage succeed
TaskPageOpened(t) ==
    /\ ~StartPending
    /\ tpc[t] = "newContext"
    /\ BrowserOpen
    /\ tpc' = [tpc EXCEPT ![t] = "page"]
    /\ CacheUntouched
    /\ UNCHANGED <<noCache, reanalyze, runNo, cacheFound, runPc, attempt, cacheKey, tbuf, leaked, resultEntries,
                   workFiles>>

\* line 185: newContext rejects (as it does once the browser is closed)
TaskNewContextFails(t) ==
    /\ ~StartPending
    /\ tpc[t] = "newContext"
    /\ AttemptThrows(t, leaked)
 
\* lines 191-195: newContext has succeeded and addCookies or newPage rejects;
\* both are outside the try, so nothing closes the context
TaskSetupFails(t) ==
    /\ ~StartPending
    /\ tpc[t] = "newContext"
    /\ BrowserOpen
    /\ leaked < MaxLeaks
    /\ AttemptThrows(t, leaked + 1)

\* lines 197-264: the page is loaded and the screenshot taken; the finally block
\* closes the page and the context; retryWithBackoff returns the image
TaskScreenshot(t) ==
    /\ ~StartPending
    /\ tpc[t] = "page"
    /\ BrowserOpen
    /\ tpc' = [tpc EXCEPT ![t] = "persist"]
    /\ tbuf' = [tbuf EXCEPT ![t] = Shot(TaskUrl(t), TaskViewport(t))]
    /\ attempt' = [attempt EXCEPT ![t] = 0]
    /\ CacheUntouched
    /\ UNCHANGED <<noCache, reanalyze, runNo, cacheFound, runPc, cacheKey, leaked, resultEntries, workFiles>>

\* lines 197-264: a step of the try block rejects (as it does once the browser
\* is closed); the finally block closes the page and the context
TaskBodyFails(t) ==
    /\ ~StartPending
    /\ tpc[t] = "page"
    /\ AttemptThrows(t, leaked)

\* lines 261-264: page.close() rejects in the finally block, so context.close()
\* is not called and the attempt throws, whatever the try block did
TaskPageCloseFails(t) ==
    /\ ~StartPending
    /\ tpc[t] = "page"
    /\ BrowserOpen
    /\ leaked < MaxLeaks
    /\ AttemptThrows(t, leaked + 1)

\* lines 275-284 and setCached lines 87-99: the image is normalised and written
\* to the working file, then setCached writes the cache file and the manifest
\* entry and calls saveManifest, or throws, which rejects the task
TaskPersist(t) ==
    /\ ~StartPending
    /\ tpc[t] = "persist"
    /\ LET finalScreenshot == resizeIfNeeded(tbuf[t])
       IN  /\ workFiles' = Put(workFiles, WorkPath(TaskUrl(t), TaskViewport(t)),
                               finalScreenshot)
           /\ SetCachedWrite(t, cacheKey[t], finalScreenshot, TaskUrl(t), TaskViewport(t))
    /\ tpc' = [tpc EXCEPT ![t] =
                  IF cacheCall'[t].op = "set" THEN "saveManifest" ELSE "cacheFailed"]
    /\ tbuf' = [tbuf EXCEPT ![t] = ""]
    /\ Settle(leaked)
    /\ UNCHANGED <<noCache, reanalyze, runNo, cacheFound, attempt, cacheKey, resultEntries>>

\* setCached lines 99-102 and lines 287-297: the manifest is saved, the entry
\* is recorded as not cached, and the task is done
TaskSaved(t) ==
    /\ ~StartPending
    /\ tpc[t] = "saveManifest"
    /\ SetCachedSaved(t)
    /\ resultEntries' = Put(resultEntries, <<TaskUrl(t), TaskViewport(t).name>>,
                            ScreenshotEntry(TaskUrl(t), TaskViewport(t), FALSE))
    /\ tpc' = [tpc EXCEPT ![t] = "done"]
    /\ Settle(leaked)
    /\ UNCHANGED <<noCache, reanalyze, runNo, cacheFound, attempt, cacheKey, tbuf, workFiles>>

NextCapture ==
    \/ RunCacheInit /\ UNCHANGED <<keyVars, analysisVars, retryVars, callVars>>
    \/ \E t \in Tasks : TaskStart(t) /\ UNCHANGED <<keyVars, analysisVars, retryVars, callVars>>
    \/ \E t \in Tasks : TaskCacheRead(t) /\ UNCHANGED <<keyVars, analysisVars, retryVars, callVars>>
    \/ \E t \in Tasks : TaskRestored(t) /\ UNCHANGED <<keyVars, analysisVars, retryVars, callVars>>
    \/ \E t \in Tasks : TaskPageOpened(t) /\ UNCHANGED <<keyVars, analysisVars, retryVars, callVars>>
    \/ \E t \in Tasks : TaskNewContextFails(t) /\ UNCHANGED <<keyVars, analysisVars, retryVars, callVars>>
    \/ \E t \in Tasks : TaskSetupFails(t) /\ UNCHANGED <<keyVars, analysisVars, retryVars, callVars>>
    \/ \E t \in Tasks : TaskScreenshot(t) /\ UNCHANGED <<keyVars, analysisVars, retryVars, callVars>>
    \/ \E t \in Tasks : TaskBodyFails(t) /\ UNCHANGED <<keyVars, analysisVars, retryVars, callVars>>
    \/ \E t \in Tasks : TaskPageCloseFails(t) /\ UNCHANGED <<keyVars, analysisVars, retryVars, callVars>>
    \/ \E t \in Tasks : TaskPersist(t) /\ UNCHANGED <<keyVars, analysisVars, retryVars, callVars>>
    \/ \E t \in Tasks : TaskSaved(t) /\ UNCHANGED <<keyVars, analysisVars, retryVars, callVars>>

SpecCapture == InitCapture /\ [][NextCapture]_vars

(***************************************************************************)
(* run(), lines 44-141: Phase A (one analysis per screenshot) and Phase B  *)
(* (one comparison per page with more than one screenshot), both through   *)
(* analysisLimit.  A running task is in attempt n of retryWithBackoff: the *)
(* sleep before the attempt (for n > 1) and the provider call.  A          *)
(* comparison that finds fewer than two screenshot files is in "attempt"   *)
(* 0: it returns null without calling the provider.                        *)
(***************************************************************************)
\* index.ts, line 13
ANALYSIS_CONCURRENCY == 5

\* analyze.ts, line 330, and compare.ts, line 281: attempts: 3
AnalysisAttempts == 3

\* the number of pages captureScreenshots has returned entries for
MaxPages == 3

\* how many provider calls may fail in a run
MaxProviderFailures == 6

PageUrls == {Urls[i] : i \in 1..MaxPages}

\* the analysis task of a screenshot and the comparison task of a page
AnalysisTask(url, vpName) == [phase |-> "A", url |-> url, viewport |-> vpName]
ComparisonTaskUnlabelled(url) == [phase |-> "B", url |-> url, viewport |-> "desktop"]
ComparisonTask(url) == [phase |-> "B", url |-> url, viewport |-> "cross-viewport"]

\* captureResult.entries in Map iteration order: <<url, viewport name>>
EntryList ==
    LET nv == Len(screenshots[Urls[1]])
    IN  [k \in 1..(MaxPages * nv) |->
            <<Urls[((k - 1) \div nv) + 1], screenshots[Urls[((k - 1) \div nv) + 1]][((k - 1) % nv) + 1]>>]

\* lines 70-105: the tasks handed to analysisLimit, in order; an entry whose
\* file is missing gets no task
analysisTasks ==
    LET present == SelectSeq(EntryList, LAMBDA e : e \in fileExists)
    IN  [k \in 1..Len(present) |-> AnalysisTask(present[k][1], present[k][2])]

\* lines 76-81: the errors the pre-flight check pushes for a page
NoPreflightErrors(url) == <<>>

PreflightErrors(url) ==
    LET missing == SelectSeq(screenshots[url], LAMBDA n : <<url, n>> \notin fileExists)
    IN  [k \in 1..Len(missing) |-> [viewport |-> missing[k], error |-> "notFound"]]

\* line 111 and lines 118-137: pages.filter((p) => p.screenshots.size > 1), as
\* the comparison tasks handed to analysisLimit, in order
comparisonTasks ==
    LET idx == SelectSeq([i \in 1..MaxPages |-> i], LAMBDA i : Len(screenshots[Urls[i]]) > 1)
    IN  [k \in 1..Len(idx) |-> ComparisonTask(Urls[idx[k]])]

SeqRange(q) == {q[i] : i \in 1..Len(q)}

\* compareViewports, lines 249-268: the screenshots of the page whose file exists
ImageContents(url) == SelectSeq(screenshots[url], LAMBDA n : <<url, n>> \in fileExists)

\* the attempt a task is in when the limiter has run it up to its first await
\* on the provider
FirstAttemptProvider(t) == 1

FirstAttempt(t) ==
    IF t.phase = "B" /\ Len(ImageContents(t.url)) < 2 THEN 0 ELSE 1

\* analysisLimit: tasks are taken from the head of the queue while the limiter
\* admits one more
RECURSIVE Admit(_, _)
Admit(queue, active) ==
    IF queue # <<>> /\ LimiterAdmits(Cardinality(DOMAIN active), ANALYSIS_CONCURRENCY)
    THEN Admit(Tail(queue), Put(active, Head(queue), FirstAttempt(Head(queue))))
    ELSE [queue |-> queue, active |-> active]

\* lines 85-101 and 120-135: the promise of a task whose body ended in `outcome`;
\* the catch block takes every error, so the promise is fulfilled
TaskPromiseUncaught(outcome) == IF outcome = "failed" THEN "rejected" ELSE "fulfilled"
TaskPromise(outcome) == "fulfilled"

\* lines 107 and 139: await Promise.all(tasks) goes on when every task is settled
PromiseAnySettled(tasks, done) == tasks = {} \/ tasks \cap done # {}
PromiseAllSettled(tasks, done) == tasks \subseteq done

\* the viewport lists a run is configured with
RunViewportNames == {<<"mobile">>, <<"mobile", "desktop">>}

AllEntries == {<<u, n>> : u \in PageUrls, n \in {"mobile", "desktop"}}

InitRunWith(key) ==
    /\ KeyIdle
    /\ CacheIdle
    /\ CaptureIdle
    /\ RetryIdle
    /\ CallIdle
    /\ \E names \in RunViewportNames : screenshots = [u \in PageUrls |-> names]
    /\ fileExists \in {AllEntries, AllEntries \ {<<Urls[1], "mobile">>}}
    /\ phase = "analysis"
    /\ limitQueue = <<>>
    /\ limitActive = EmptyMap
    /\ settled = EmptyMap
    /\ analyses = EmptyMap
    /\ errors = EmptyMap
    /\ crossViewport = EmptyMap
    /\ providerFailures = 0
    /\ apiKey = key

\* run() with an API key set
InitRun == InitRunWith(TRUE)

\* lines 47-105: the page results are built, the pre-flight errors pushed and
\* the analysis tasks handed to the limiter, which runs the first of them
RunPhaseA ==
    /\ phase = "analysis"
    /\ phase' = "phaseA"
    /\ analyses' = [u \in PageUrls |-> {}]
    /\ errors' = [u \in PageUrls |-> PreflightErrors(u)]
    /\ crossViewport' = [u \in PageUrls |-> "null"]
    /\ LET l == Admit(analysisTasks, EmptyMap)
       IN  limitQueue' = l.queue /\ limitActive' = l.active
    /\ UNCHANGED <<screenshots, fileExists, settled, providerFailures, apiKey>>

\* the body of task t has ended in `outcome`: its promise settles and the
\* limiter runs the next task; a rejected promise rejects Promise.all and run()
TaskSettles(t, outcome) ==
    /\ settled' = Put(settled, t, outcome)
    /\ LET l == Admit(limitQueue, Del(limitActive, t))
       IN  limitQueue' = l.queue /\ limitActive' = l.active
    /\ phase' = IF TaskPromise(outcome) = "rejected" /\ phase \in {"phaseA", "phaseB"}
                THEN "rejected" ELSE phase

\* line 97 and line 131: pageResult.errors.push(...)
PushErrorDropped(list, e) == list

PushError(list, e) == Append(list, e)

\* lines 86-93 and 122-127: the provider answers and the result is recorded
ProviderReturns(t) ==
    /\ t \in DOMAIN limitActive
    /\ limitActive[t] >= 1
    /\ apiKey
    /\ IF t.phase = "A"
       THEN /\ analyses' = [analyses EXCEPT ![t.url] = @ \cup {t.viewport}]
            /\ UNCHANGED crossViewport
       ELSE /\ crossViewport' = [crossViewport EXCEPT ![t.url] = "analysis"]
            /\ UNCHANGED analyses
    /\ TaskSettles(t, "ok")
    /\ UNCHANGED <<screenshots, fileExists, errors, providerFailures, apiKey>>

\* attempt n of the function that analyzeScreenshot or compareViewports hands
\* to retryWithBackoff throws `message`: retryWithBackoff sleeps and calls the
\* function again, or throws after the last attempt, and the catch block
\* (lines 94-97 and 128-131) records the error on the page of the task
AttemptFails(t, message) ==
    /\ IF retryWithBackoff(limitActive[t], AnalysisAttempts) = "sleep"
       THEN /\ limitActive' = [limitActive EXCEPT ![t] = @ + 1]
            /\ UNCHANGED <<phase, limitQueue, settled, errors>>
       ELSE /\ errors' = IF TaskPromise("failed") = "fulfilled"
                         THEN [errors EXCEPT ![t.url] =
                                  PushError(@, [viewport |-> t.viewport, error |-> message])]
                         ELSE errors
            /\ TaskSettles(t, "failed")
    /\ UNCHANGED <<screenshots, fileExists, analyses, crossViewport, apiKey>>

\* the provider call of attempt n fails
ProviderFails(t) ==
    /\ t \in DOMAIN limitActive
    /\ limitActive[t] >= 1
    /\ apiKey
    /\ providerFailures < MaxProviderFailures
    /\ providerFailures' = providerFailures + 1
    /\ AttemptFails(t, "provider")

\* analyzeWithClaude lines 222-225 (and compareWithClaude, and the OpenAI
\* twins): no key is set, and the function throws before it calls the provider
ApiKeyNotSet(t) ==
    /\ t \in DOMAIN limitActive
    /\ limitActive[t] >= 1
    /\ ~apiKey
    /\ AttemptFails(t, "apiKeyNotSet")
    /\ UNCHANGED providerFailures

\* compareViewports, lines 265-268: fewer than two files, the result is null
CompareSkipped(t) ==
    /\ t \in DOMAIN limitActive
    /\ limitActive[t] = 0
    /\ TaskSettles(t, "null")
    /\ UNCHANGED <<screenshots, fileExists, analyses, errors, crossViewport, providerFailures, apiKey>>

\* lines 107-137: Promise.all(analysisTasks) has resolved; the comparison tasks
\* are handed to the limiter
RunPhaseB ==
    /\ phase = "phaseA"
    /\ PromiseAllSettled(SeqRange(analysisTasks), DOMAIN settled)
    /\ phase' = "phaseB"
    /\ LET l == Admit(limitQueue \o comparisonTasks, limitActive)
       IN  limitQueue' = l.queue /\ limitActive' = l.active
    /\ UNCHANGED <<screenshots, fileExists, settled, analyses, errors, crossViewport,
                   providerFailures, apiKey>>

\* lines 139-199: Promise.all(comparisonTasks) has resolved (or there was no
\* comparison); the summary and the report are made and run() returns
RunReturns ==
    /\ phase = "phaseB"
    /\ PromiseAllSettled(SeqRange(comparisonTasks), DOMAIN settled)
    /\ phase' = "returned"
    /\ UNCHANGED <<screenshots, fileExists, limitQueue, limitActive, settled, analyses,
                   errors, crossViewport, providerFailures, apiKey>>

AllTasks == SeqRange(analysisTasks) \cup SeqRange(comparisonTasks)

NextRun ==
    \/ RunPhaseA /\ UNCHANGED <<keyVars, cacheVars, captureVars, retryVars, callVars>>
    \/ \E t \in AllTasks : ProviderReturns(t) /\ UNCHANGED <<keyVars, cacheVars, captureVars, retryVars, callVars>>
    \/ \E t \in AllTasks : ProviderFails(t) /\ UNCHANGED <<keyVars, cacheVars, captureVars, retryVars, callVars>>
    \/ \E t \in AllTasks : CompareSkipped(t) /\ UNCHANGED <<keyVars, cacheVars, captureVars, retryVars, callVars>>
    \/ RunPhaseB /\ UNCHANGED <<keyVars, cacheVars, captureVars, retryVars, callVars>>
    \/ RunReturns /\ UNCHANGED <<keyVars, cacheVars, captureVars, retryVars, callVars>>

SpecRun == InitRun /\ [][NextRun]_vars

\* run() with no API key set: every attempt throws before it calls the provider
InitNoKey == InitRunWith(FALSE)

NextNoKey ==
    \/ RunPhaseA /\ UNCHANGED <<keyVars, cacheVars, captureVars, retryVars, callVars>>
    \/ \E t \in AllTasks : ApiKeyNotSet(t) /\ UNCHANGED <<keyVars, cacheVars, captureVars, retryVars, callVars>>
    \/ \E t \in AllTasks : CompareSkipped(t) /\ UNCHANGED <<keyVars, cacheVars, captureVars, retryVars, callVars>>
    \/ RunPhaseB /\ UNCHANGED <<keyVars, cacheVars, captureVars, retryVars, callVars>>
    \/ RunReturns /\ UNCHANGED <<keyVars, cacheVars, captureVars, retryVars, callVars>>

SpecNoKey == InitNoKey /\ [][NextNoKey]_vars

(***************************************************************************)
(* The working files of two capture tasks of one run: lines 147 and        *)
(* 277-281 of captureScreenshots, for two different (url, viewport) pairs  *)
(* of the run.                                                             *)
(***************************************************************************)
WorkPairs == {<<Urls[i], v>> : i \in 1..Len(Urls), v \in ViewportSet}

InitPaths ==
    /\ KeyIdle
    /\ CacheIdle
    /\ CaptureIdle
    /\ AnalysisIdle
    /\ RetryIdle
    /\ input \in {pq \in WorkPairs \X WorkPairs : pq[1] # pq[2]}
    /\ output = <<>>

\* both tasks compute their working file path
ComputeWorkPaths ==
    /\ output = <<>>
    /\ output' = <<WorkPath(input[1][1], input[1][2]), WorkPath(input[2][1], input[2][2])>>
    /\ UNCHANGED input

NextPaths ==
    ComputeWorkPaths /\ UNCHANGED <<keyVars, cacheVars, captureVars, analysisVars, retryVars>>

SpecPaths == InitPaths /\ [][NextPaths]_vars

(***************************************************************************)
(* run(), lines 143-176: the summary and the exit code, from the issues of *)
(* the analyses and of the cross-viewport analyses of all pages, given as  *)
(* the lists of their severities, and from config.failOn.                  *)
(***************************************************************************)
MaxIssues == 2

IssueSeverity == {"critical", "warning", "info"}

\* the lists of at most n severities
RECURSIVE IssueLists(_)
IssueLists(n) ==
    IF n = 0 THEN {<<>>}
    ELSE IssueLists(n - 1)
         \cup {Append(l, v) : l \in {m \in IssueLists(n - 1) : Len(m) = n - 1},
                               v \in IssueSeverity}

\* lines 144 and 148-162: totalIssues[issue.severity]++ over both lists
CountIssues(analysisIssues, crossIssues) ==
    LET all == analysisIssues \o crossIssues
    IN  [v \in IssueSeverity |-> Cardinality({i \in 1..Len(all) : all[i] = v})]

\* lines 169-176
ExitCodeAtLevel(failOn, totalIssues) ==
    IF failOn # "undefined" /\ totalIssues[failOn] > 0 THEN 1 ELSE 0

ExitCode(failOn, totalIssues) ==
    IF failOn = "undefined" THEN 0
    ELSE IF failOn = "critical" /\ totalIssues["critical"] > 0 THEN 1
    ELSE IF failOn = "warning"
            /\ (totalIssues["critical"] > 0 \/ totalIssues["warning"] > 0) THEN 1
    ELSE IF failOn = "info"
            /\ (totalIssues["critical"] > 0 \/ totalIssues["warning"] > 0
                \/ totalIssues["info"] > 0) THEN 1
    ELSE 0

InitExit ==
    /\ KeyIdle
    /\ CacheIdle
    /\ CaptureIdle
    /\ AnalysisIdle
    /\ RetryIdle
    /\ input \in [failOn : IssueSeverity \cup {"undefined"},
                  analysisIssues : IssueLists(MaxIssues),
                  crossIssues : IssueLists(MaxIssues),
                  errors : BOOLEAN]
    /\ output = <<>>

\* the summary is built and the exit code determined
BuildSummary ==
    /\ output = <<>>
    /\ LET totalIssues == CountIssues(input.analysisIssues, input.crossIssues)
       IN  output' = [totalIssues |-> totalIssues,
                      exitCode |-> ExitCode(input.failOn, totalIssues)]
    /\ UNCHANGED input

NextExit ==
    BuildSummary /\ UNCHANGED <<keyVars, cacheVars, captureVars, analysisVars, retryVars>>

SpecExit == InitExit /\ [][NextExit]_vars

(***************************************************************************)
(* resizeIfNeeded(buffer), capture.ts lines 63-114.  An image is its width *)
(* and height in pixels and the size of its PNG encoding, counted in whole *)
(* megabytes.  The size of what sharp encodes depends on the pixels of the *)
(* image, which the function never looks at: an encoding made from a       *)
(* buffer has any size from 1 megabyte to the size of that buffer, and an  *)
(* image with a side of less than 1440 pixels has 1 megabyte.  sharp       *)
(* rejects a resize to a side of 0 pixels.                                 *)
(***************************************************************************)
MAX_IMAGE_BYTES == 5

MAX_IMAGE_DIMENSION == 7800

MaxMegabytes == 7

Sides == {1, 1440, 7800, 7801, 15600, 20000}

\* the sizes an image of width x height pixels can have
ImageSizes(width, height) ==
    IF width >= 1440 /\ height >= 1440 THEN 1..MaxMegabytes ELSE {1}

\* the sizes of a PNG of width x height pixels that sharp makes from a buffer
\* of `bytes` megabytes
EncodedSizes(bytes, width, height) == {n \in ImageSizes(width, height) : n <= bytes}

\* Math.round(n / d) for n >= 0 and d > 0
Round(n, d) == (2 * n + d) \div (2 * d)

\* lines 72-77: Math.round(side * Math.min(MAX / origWidth, MAX / origHeight))
ScaledByWidth(side, origWidth, origHeight) == Round(side * MAX_IMAGE_DIMENSION, origWidth)

ScaledSide(side, origWidth, origHeight) ==
    IF origWidth >= origHeight
    THEN Round(side * MAX_IMAGE_DIMENSION, origWidth)
    ELSE Round(side * MAX_IMAGE_DIMENSION, origHeight)

InitResize ==
    /\ KeyIdle
    /\ CacheIdle
    /\ CaptureIdle
    /\ AnalysisIdle
    /\ RetryIdle
    /\ input \in {i \in [width : Sides, height : Sides, bytes : 1..MaxMegabytes] :
                      i.bytes \in ImageSizes(i.width, i.height)}
    /\ output = [pc |-> "phase1", width |-> input.width, height |-> input.height,
                 bytes |-> input.bytes, current |-> input.bytes, quality |-> 80]

\* lines 65-87: the image is resized when a side exceeds MAX_IMAGE_DIMENSION
EnforceDimensions ==
    /\ output.pc = "phase1"
    /\ IF input.width > MAX_IMAGE_DIMENSION \/ input.height > MAX_IMAGE_DIMENSION
       THEN LET newWidth  == ScaledSide(input.width, input.width, input.height)
                newHeight == ScaledSide(input.height, input.width, input.height)
            IN  IF newWidth = 0 \/ newHeight = 0
                THEN output' = [output EXCEPT !.pc = "threw", !.width = newWidth,
                                              !.height = newHeight]
                ELSE \E size \in EncodedSizes(input.bytes, newWidth, newHeight) :
                        output' = [output EXCEPT !.pc = "phase2", !.width = newWidth,
                                                 !.height = newHeight, !.bytes = size,
                                                 !.current = size]
       ELSE output' = [output EXCEPT !.pc = "phase2"]
    /\ UNCHANGED input

\* line 90 and the loop condition of line 97
EnforceBytes ==
    /\ output.pc = "phase2"
    /\ output' = [output EXCEPT
                     !.pc = IF output.bytes <= MAX_IMAGE_BYTES THEN "returned" ELSE "quality"]
    /\ UNCHANGED input

\* lines 97-100: one round of the loop
ReduceQuality ==
    /\ output.pc = "quality"
    /\ output.bytes > MAX_IMAGE_BYTES
    /\ output.quality > 20
    /\ \E size \in EncodedSizes(output.current, output.width, output.height) :
          output' = [output EXCEPT !.bytes = size, !.quality = @ - 10]
    /\ UNCHANGED input

\* lines 97 and 103-113: the loop has ended; an image that is still too large
\* is resized once to 70% of its width, and the result is returned
ReduceWidthAndReturn ==
    /\ output.pc = "quality"
    /\ ~(output.bytes > MAX_IMAGE_BYTES /\ output.quality > 20)
    /\ IF output.bytes > MAX_IMAGE_BYTES
       THEN LET newWidth  == Round(output.width * 7, 10)
                newHeight == Round(output.height * newWidth, output.width)
            IN  \E size \in EncodedSizes(output.current, newWidth, newHeight) :
                   output' = [output EXCEPT !.pc = "returned", !.width = newWidth,
                                            !.height = newHeight, !.bytes = size]
       ELSE output' = [output EXCEPT !.pc = "returned"]
    /\ UNCHANGED input

NextResize ==
    \/ EnforceDimensions /\ UNCHANGED <<keyVars, cacheVars, captureVars, analysisVars, retryVars>>
    \/ EnforceBytes /\ UNCHANGED <<keyVars, cacheVars, captureVars, analysisVars, retryVars>>
    \/ ReduceQuality /\ UNCHANGED <<keyVars, cacheVars, captureVars, analysisVars, retryVars>>
    \/ ReduceWidthAndReturn
          /\ UNCHANGED <<keyVars, cacheVars, captureVars, analysisVars, retryVars>>

SpecResize == InitResize /\ [][NextResize]_vars

(***************************************************************************)
(* retryWithBackoff(fn, opts), retry.ts: one call, with a policy of        *)
(* opts.attempts attempts, an operation fn that rejects on its first       *)
(* failsFirst calls and resolves on every later one, and an observer       *)
(* opts.onRetry that is absent, returns, or throws.  The error of the i-th *)
(* call of fn is an object of its own, FnError(i).  Delays are whole       *)
(* numbers of a time unit, and Math.random() * baseDelayMs is any of the   *)
(* whole numbers below baseDelayMs.                                        *)
(***************************************************************************)
MaxAttempts == 3

FnValue == [kind |-> "value", from |-> "fn", call |-> 0]

FnError(i) == [kind |-> "error", from |-> "fn", call |-> i]

ObserverError(i) == [kind |-> "error", from |-> "onRetry", call |-> i]

Observers == {"none", "returns", "throws"}

BaseDelays == {1, 2, 3}

MaxDelays == {3, 5}

\* lines 31-33: the delay after the failed attempt n, with jitter j
backoffUncapped(n, base, max, j) == base * 2^(n - 1) + j

backoffDelay(n, base, max, j) ==
    LET exponentialDelay == base * 2^(n - 1)
    IN  IF exponentialDelay + j <= max THEN exponentialDelay + j ELSE max

InitRetry ==
    /\ KeyIdle
    /\ CacheIdle
    /\ CaptureIdle
    /\ AnalysisIdle
    /\ CallIdle
    /\ optsAttempts \in 1..MaxAttempts
    /\ baseDelayMs \in BaseDelays
    /\ maxDelayMs \in MaxDelays
    /\ delay = 0
    /\ failsFirst \in 0..MaxAttempts
    /\ onRetry \in Observers
    /\ rpc = "fn"
    /\ rAttempt = 1
    /\ invocations = 0
    /\ observed = <<>>
    /\ lastError = NoOutcome
    /\ retryOutcome = NoOutcome

\* line 28: onRetry(error, attempt) is called
NotifyNever(seen, error, n) == seen

NotifyObserver(seen, error, n) == Append(seen, [error |-> error, attempt |-> n])

\* line 23: fn() resolves, and retryWithBackoff returns its value
FnResolves ==
    /\ rpc = "fn"
    /\ invocations + 1 > failsFirst
    /\ invocations' = invocations + 1
    /\ rpc' = "returned"
    /\ retryOutcome' = FnValue
    /\ UNCHANGED <<optsAttempts, baseDelayMs, maxDelayMs, delay, failsFirst, onRetry,
                   rAttempt, observed, lastError>>

\* lines 24-35 and 39: fn() rejects.  In the last attempt the loop is left and
\* lastError thrown; in an earlier one the observer, if there is one, is
\* called inside the catch block, where what it throws leaves
\* retryWithBackoff, and then the sleep begins
FnRejects ==
    /\ rpc = "fn"
    /\ invocations + 1 <= failsFirst
    /\ invocations' = invocations + 1
    /\ lastError' = FnError(invocations + 1)
    /\ IF retryWithBackoff(rAttempt, optsAttempts) = "throw"
       THEN /\ rpc' = "threw"
            /\ retryOutcome' = lastError'
            /\ UNCHANGED <<observed, delay>>
       ELSE /\ observed' = IF onRetry = "none"
                              THEN observed
                              ELSE NotifyObserver(observed, lastError', rAttempt)
            /\ IF onRetry = "throws"
               THEN /\ rpc' = "threw"
                    /\ retryOutcome' = ObserverError(rAttempt)
                    /\ UNCHANGED delay
               ELSE /\ rpc' = "sleep"
                    /\ \E j \in 0..(baseDelayMs - 1) :
                           delay' = backoffDelay(rAttempt, baseDelayMs, maxDelayMs, j)
                    /\ UNCHANGED retryOutcome
    /\ UNCHANGED <<optsAttempts, baseDelayMs, maxDelayMs, failsFirst, onRetry, rAttempt>>

\* lines 35 and 21: the sleep ends and the next attempt begins
SleepEnds ==
    /\ rpc = "sleep"
    /\ rAttempt' = rAttempt + 1
    /\ rpc' = "fn"
    /\ UNCHANGED <<optsAttempts, baseDelayMs, maxDelayMs, delay, failsFirst, onRetry,
                   invocations, observed, lastError, retryOutcome>>

NextRetry ==
    \/ FnResolves /\ UNCHANGED <<keyVars, cacheVars, captureVars, analysisVars, callVars>>
    \/ FnRejects /\ UNCHANGED <<keyVars, cacheVars, captureVars, analysisVars, callVars>>
    \/ SleepEnds /\ UNCHANGED <<keyVars, cacheVars, captureVars, analysisVars, callVars>>

SpecRetry == InitRetry /\ [][NextRetry]_vars

(***************************************************************************)
(* C2, C3, C7                                                              *)
(***************************************************************************)
\* C2: in one captureScreenshots run over distinct URLs and distinct viewports
\* no two capture tasks compute the same cache key.
C2_OneTaskPerKey ==
    \A t1 \in DOMAIN cacheKey, t2 \in DOMAIN cacheKey :
        (t1 # t2 /\ cacheKey[t1] # NoKey /\ cacheKey[t2] # NoKey)
            => cacheKey[t1] # cacheKey[t2]

\* C3: when every retry attempt of one (url, viewport) pair has failed (and
\* nothing else has gone wrong), captureScreenshots does not throw and run() is
\* not aborted: it is still capturing or has gone on to the analysis.
C3_CaptureFailureIsolated ==
    (/\ \E t \in DOMAIN tpc : tpc[t] = "captureFailed"
     /\ \A t \in DOMAIN tpc : tpc[t] # "cacheFailed")
        => runPc # "rejected"

\* C7: at most 3 capture tasks are in flight, and at most 3 browser contexts
\* are open, at every moment of captureScreenshots.
C7_CaptureBound ==
    /\ ActiveCount <= DEFAULT_CONCURRENCY
    /\ OpenContexts <= DEFAULT_CONCURRENCY

(***************************************************************************)
(* C4, C5, C6                                                              *)
(***************************************************************************)
\* the tasks of page url that have failed on all their attempts
FailedTasks(url) == {t \in DOMAIN settled : t.url = url /\ settled[t] = "failed"}

\* C4: a task of Phase A or Phase B whose provider call fails on all attempts
\* records one error, under its own viewport label, in the error list of its
\* own page; every task whose call succeeds has its result recorded; run() does
\* not reject, and it returns only when every task has run to completion.
C4_AnalysisFailureIsolated ==
    /\ phase # "rejected"
    /\ \A t \in DOMAIN settled :
          /\ settled[t] = "failed" =>
                Cardinality({i \in 1..Len(errors[t.url]) :
                                /\ errors[t.url][i].viewport = t.viewport
                                /\ errors[t.url][i].error \in {"provider", "apiKeyNotSet"}}) = 1
          /\ (settled[t] = "ok" /\ t.phase = "A") => t.viewport \in analyses[t.url]
          /\ (settled[t] = "ok" /\ t.phase = "B") => crossViewport[t.url] = "analysis"
    /\ \A u \in DOMAIN errors :
          Len(errors[u]) = Cardinality(FailedTasks(u)) + Len(PreflightErrors(u))
    /\ phase = "returned" => AllTasks \subseteq DOMAIN settled

\* run() has returned after an analysis and a comparison have failed on all
\* attempts while the analyses of another page succeeded
C4_Witness ==
    /\ phase = "returned"
    /\ \E a \in DOMAIN settled, b \in DOMAIN settled, c \in DOMAIN settled :
          /\ a.phase = "A" /\ settled[a] = "failed"
          /\ b.phase = "B" /\ settled[b] = "failed"
          /\ c.phase = "A" /\ settled[c] = "ok" /\ c.url # a.url /\ c.url # b.url

\* the comparison tasks that have been handed to the limiter
ComparisonStarted ==
    {t \in SeqRange(limitQueue) \cup DOMAIN limitActive \cup DOMAIN settled : t.phase = "B"}

\* C5: no comparison task is started (or queued) before every analysis task
\* of Phase A has settled.
C5_PhaseBBarrier ==
    ComparisonStarted # {} => SeqRange(analysisTasks) \subseteq DOMAIN settled

\* a comparison is calling the provider, after an analysis task has failed
C5_Witness ==
    /\ \E t \in DOMAIN limitActive : t.phase = "B" /\ limitActive[t] >= 1
    /\ \E t \in DOMAIN settled : t.phase = "A" /\ settled[t] = "failed"

\* C6: at most 5 analysis and comparison tasks, taken together, are in flight
\* (calling the provider or sleeping before a retry) at any moment.
C6_AnalysisBound == Cardinality(DOMAIN limitActive) <= ANALYSIS_CONCURRENCY

\* the limiter is full, a task is waiting and a running task is retrying
C6_Witness ==
    /\ Cardinality(DOMAIN limitActive) = ANALYSIS_CONCURRENCY
    /\ limitQueue # <<>>
    /\ \E t \in DOMAIN limitActive : limitActive[t] >= 2

(***************************************************************************)
(* C11                                                                     *)
(***************************************************************************)
\* C11: with config.noCache the cache never makes a capture task fail: a task
\* whose browser capture has succeeded is never rejected by its setCached
\* call, whether or not the cache directory exists.
C11_NoCacheBypass ==
    noCache => \A t \in DOMAIN tpc : tpc[t] # "cacheFailed"

(***************************************************************************)
(* C12                                                                     *)
(***************************************************************************)
\* the run found no cache: no manifest and no image file
CacheFoundEmpty == cacheFound.doc.kind = "none" /\ cacheFound.files = EmptyMap

\* the first run, with caching enabled, has captured every pair
FirstRunCaptured ==
    /\ runNo = 1
    /\ ~noCache /\ ~reanalyze
    /\ runPc = "analysis"

\* C12: a successful first run over an empty cache, with caching enabled, has
\* one cache miss (an entry with cached = false), one new manifest entry and
\* one working file for every (url, viewport) pair.
C12_FirstRun ==
    (FirstRunCaptured /\ CacheFoundEmpty) =>
        /\ \A e \in DOMAIN resultEntries : ~resultEntries[e].cached
        /\ Cardinality(DOMAIN resultEntries) = Cardinality(Tasks)
        /\ Cardinality(DOMAIN manifest) = Cardinality(Tasks)
        /\ Cardinality(DOMAIN workFiles) = Cardinality(Tasks)

(***************************************************************************)
(* SpecRuns: a run with caching enabled and, after its capture succeeded,  *)
(* a second run of the program with the same configuration over what the   *)
(* first run left in the cache and the working directory.                  *)
(***************************************************************************)
InitRuns == InitCapture /\ ~noCache /\ ~reanalyze

\* the process of the first run has ended and the program is run again: run()
\* line 30 constructs a new ScreenshotCache and captureScreenshots a new result
RunAgain ==
    /\ runNo = 1
    /\ runPc = "analysis"
    /\ runNo' = 2
    /\ runPc' = "cache.init"
    /\ cacheFound' = [doc |-> diskManifest, files |-> cacheFiles]
    /\ manifest' = EmptyMap
    /\ inited' = FALSE
    /\ cacheCall' = [t \in Tasks |-> IdleCall]
    /\ returnedKeys' = {}
    /\ roundTrip' = NoRoundTrip
    /\ lastGet' = NoGet
    /\ tpc' = [t \in Tasks |-> "queued"]
    /\ attempt' = [t \in Tasks |-> 0]
    /\ cacheKey' = [t \in Tasks |-> NoKey]
    /\ tbuf' = [t \in Tasks |-> ""]
    /\ leaked' = 0
    /\ resultEntries' = EmptyMap
    /\ UNCHANGED <<noCache, reanalyze, workFiles, disabled, cacheDirExists, diskManifest,
                   cacheFiles>>

NextRuns ==
    \/ NextCapture
    \/ RunAgain /\ UNCHANGED <<keyVars, analysisVars, retryVars, callVars>>

SpecRuns == InitRuns /\ [][NextRuns]_vars

(***************************************************************************)
(* C13                                                                     *)
(***************************************************************************)
\* the task has had a cache miss: it is capturing, or has captured or failed
Missed(t) ==
    \/ tpc[t] \in {"newContext", "page", "persist", "saveManifest", "captureFailed",
                   "cacheFailed"}
    \/ /\ tpc[t] = "done"
       /\ ~resultEntries[<<TaskUrl(t), TaskViewport(t).name>>].cached

\* C13: in the run that follows a successful run with the same urls, viewports
\* and options, caching enabled, every (url, viewport) pair is a cache hit and
\* no task goes to the browser.
C13_SecondRunHits ==
    (runNo = 2 /\ ~noCache /\ ~reanalyze) => \A t \in DOMAIN tpc : ~Missed(t)

(***************************************************************************)
(* C14                                                                     *)
(***************************************************************************)
\* the cache the run found holds a screenshot for the pair of task t
CacheHeld(t) ==
    /\ Has(cacheFound.doc.entries, TaskKeys[t])
    /\ Has(cacheFound.files, FileName(TaskKeys[t]))

\* C14: with --reanalyze, a pair whose screenshot the cache already holds is
\* not captured again: its task never goes to the browser.
C14_ReanalyzeUsesCache ==
    reanalyze => \A t \in DOMAIN tpc : CacheHeld(t) => ~Missed(t)

(***************************************************************************)
(* SpecCachedRun: a run with caching enabled over a cache that an earlier  *)
(* run has filled.                                                         *)
(***************************************************************************)
InitCachedRun == InitCapture /\ ~noCache /\ ~reanalyze /\ cacheFound.files # EmptyMap

SpecCachedRun == InitCachedRun /\ [][NextCapture]_vars

\* the same when every browser, file and cache call eventually returns or
\* fails: the event loop runs a continuation that is ready, so a step that
\* can be taken is taken
FairCachedRun == SpecCachedRun /\ WF_vars(NextCapture)

(***************************************************************************)
(* C15                                                                     *)
(***************************************************************************)
\* C15: a task that has had a cache hit has begun no capture attempt and
\* begins none: its next step ends it, with a file at its working path (the
\* cached bytes when there was no file) and an entry with cached = true.
C15_HitRestores ==
    [][\A t \in DOMAIN tpc :
          tpc[t] = "restore" =>
             /\ attempt[t] = 0
             /\ tpc'[t] \in {"restore", "done"}
             /\ tpc'[t] = "done" =>
                   LET filePath == WorkPath(TaskUrl(t), TaskViewport(t))
                       e == <<TaskUrl(t), TaskViewport(t).name>>
                   IN  /\ Has(workFiles', filePath)
                       /\ ~Has(workFiles, filePath) => workFiles'[filePath] = tbuf[t]
                       /\ Has(workFiles, filePath) => workFiles'[filePath] = workFiles[filePath]
                       /\ Has(resultEntries', e)
                       /\ resultEntries'[e].cached
                       /\ resultEntries'[e].filePath = filePath]_vars

\* the desktop task of the cached page is done after a hit, and the working
\* file it found missing holds the cached image
C15_Witness ==
    /\ runNo = 1
    /\ tpc[2] = "done"
    /\ resultEntries[<<Urls[1], "desktop">>].cached
    /\ Has(workFiles, WorkPath(Urls[1], Desktop))
    /\ workFiles[WorkPath(Urls[1], Desktop)] = "png-A"

(***************************************************************************)
(* C16, C17, C18                                                           *)
(***************************************************************************)
RetrySettled == rpc \in {"returned", "threw"}

\* C16: when fn rejects on every call and the observer, if there is one,
\* returns, retryWithBackoff has called fn exactly opts.attempts times when it
\* settles, and it throws the error of the last call.
C16_Exhaustion ==
    (RetrySettled /\ failsFirst >= optsAttempts /\ onRetry # "throws") =>
        /\ rpc = "threw"
        /\ invocations = optsAttempts
        /\ retryOutcome = FnError(optsAttempts)

\* three attempts have failed under an observer, and the third error is thrown
C16_Witness ==
    /\ rpc = "threw"
    /\ optsAttempts = 3
    /\ onRetry = "returns"
    /\ invocations = 3
    /\ retryOutcome = FnError(3)

\* C17: when fn rejects on its first k calls and resolves on call k+1, with
\* k+1 <= opts.attempts, and the observer returns, retryWithBackoff returns the
\* value after exactly k+1 calls of fn, and the observer has been called
\* exactly k times, the i-th time with the i-th error and attempt number i.
C17_LaterSuccess ==
    (RetrySettled /\ failsFirst + 1 <= optsAttempts /\ onRetry = "returns") =>
        /\ rpc = "returned"
        /\ retryOutcome = FnValue
        /\ invocations = failsFirst + 1
        /\ observed = [i \in 1..failsFirst |-> [error |-> FnError(i), attempt |-> i]]

\* two failures, then success in the third of three attempts
C17_Witness ==
    /\ rpc = "returned"
    /\ optsAttempts = 3
    /\ failsFirst = 2
    /\ onRetry = "returns"
    /\ Len(observed) = 2

\* C18: whatever the observer does, retryWithBackoff settles only after fn
\* has resolved or has been called opts.attempts times, and its outcome is
\* the value of fn or the error of the last call of fn.
C18_ObserverCannotAlter ==
    RetrySettled =>
        IF failsFirst < optsAttempts
        THEN /\ rpc = "returned"
             /\ invocations = failsFirst + 1
             /\ retryOutcome = FnValue
        ELSE /\ rpc = "threw"
             /\ invocations = optsAttempts
             /\ retryOutcome = FnError(optsAttempts)

(***************************************************************************)
(* C19                                                                     *)
(***************************************************************************)
\* the manifest in memory has an entry for k, and the file it names is missing
StaleEntry(k) == Has(manifest, k) /\ ~Has(cacheFiles, manifest[k].filePath)

\* C19: a getCached(k) that finds an entry for k in the manifest in memory
\* whose file does not exist returns a miss and leaves the manifest in memory
\* without an entry for k; and a getCached(k) that finds no entry for k, as
\* every later one does until k is stored again, returns a miss too.
C19_StaleEntryMiss ==
    [][\A c \in Callers, r \in CacheRequests :
          (GetCachedBegin(c, r.key) /\ (StaleEntry(r.key) \/ ~Has(manifest, r.key))) =>
              /\ lastGet' = [caller |-> c, key |-> r.key, kind |-> "miss", bytes |-> ""]
              /\ ~Has(manifest', r.key)
              /\ UNCHANGED <<diskManifest, cacheFiles>>]_vars

\* over a directory whose manifest names OldKey but whose image file is gone,
\* nothing but getCached calls have been made since init(), the last one
\* missed OldKey, and the manifest in memory has lost the entry
C19_Witness ==
    /\ inited
    /\ ~disabled
    /\ \A c \in Callers : CallerFree(c)
    /\ diskManifest = Doc(Put(EmptyMap, OldKey, ManifestEntry(Urls[1], Mobile, OldKey)))
    /\ cacheFiles = EmptyMap
    /\ lastGet.kind = "miss"
    /\ lastGet.key = OldKey
    /\ ~Has(manifest, OldKey)

(***************************************************************************)
(* C20                                                                     *)
(***************************************************************************)
\* the entries of captureResult whose file does not exist when Phase A runs
MissingEntries ==
    {e \in AllEntries : e[1] \in PageUrls /\ e[2] \in SeqRange(screenshots[e[1]])
                                          /\ e \notin fileExists}

\* the places in the error list of page url that name viewport vpName
ErrorsOf(url, vpName) == {i \in 1..Len(errors[url]) : errors[url][i].viewport = vpName}

\* C20: from Phase A on, every screenshot entry whose file does not exist has
\* exactly one error on its page, {viewport, "Screenshot file not found"},
\* pushed before any error of an analysis; its analysis task is neither
\* queued nor running nor settled, so the provider is never called for it.
C20_PreflightMissing ==
    phase # "analysis" =>
        \A e \in MissingEntries :
            /\ \E i \in 1..Len(errors[e[1]]) :
                  /\ ErrorsOf(e[1], e[2]) = {i}
                  /\ errors[e[1]][i] = [viewport |-> e[2], error |-> "notFound"]
                  /\ \A j \in 1..(i - 1) : errors[e[1]][j].error = "notFound"
            /\ AnalysisTask(e[1], e[2]) \notin SeqRange(limitQueue)
            /\ AnalysisTask(e[1], e[2]) \notin DOMAIN limitActive
            /\ AnalysisTask(e[1], e[2]) \notin DOMAIN settled

\* run() has returned, the mobile screenshot of the first page was missing,
\* and the analysis of its desktop screenshot failed after the pre-flight error
C20_Witness ==
    /\ phase = "returned"
    /\ <<Urls[1], "mobile">> \in MissingEntries
    /\ Len(errors[Urls[1]]) >= 2
    /\ errors[Urls[1]][1] = [viewport |-> "mobile", error |-> "notFound"]
    /\ errors[Urls[1]][2].viewport = "desktop"

(***************************************************************************)
(* C21                                                                     *)
(***************************************************************************)
\* C21: while the browser is open, no context is open that an attempt which
\* has ended opened: every attempt has closed its context before it returned
\* or threw.
C21_ContextScoped == BrowserOpen => leaked = 0

(***************************************************************************)
(* C22                                                                     *)
(***************************************************************************)
\* C22: when no API key is set, no analysis and no comparison goes beyond its
\* first attempt: retryWithBackoff neither sleeps nor calls again.
C22_ConfigFailsFast == ~apiKey => \A t \in DOMAIN limitActive : limitActive[t] <= 1

(***************************************************************************)
(* C23                                                                     *)
(***************************************************************************)
\* the manifest file exists and is not a manifest
CorruptManifest == diskManifest.kind \notin {"none", "doc"}

\* C23: init() of an enabled cache over a corrupt manifest file completes and
\* leaves the empty manifest in memory.
C23_CorruptManifestEmpty ==
    [][(CacheInitCall /\ ~disabled /\ CorruptManifest) => manifest' = EmptyMap]_vars

(***************************************************************************)
(* C24                                                                     *)
(***************************************************************************)
\* C24: two capture tasks of one run, for two different (url, viewport)
\* pairs, write two different working files.
C24_WorkPathsDistinct == output # <<>> => output[1] # output[2]

(***************************************************************************)
(* C25                                                                     *)
(***************************************************************************)
\* the two requests hold the same url and the same fields and values in
\* viewport and capture options, in whatever insertion order
SameFieldsAndValues(a, b) ==
    /\ a.url = b.url
    /\ a.viewport.name = b.viewport.name
    /\ a.viewport.width = b.viewport.width
    /\ a.viewport.height = b.viewport.height
    /\ a.captureOpts.t = b.captureOpts.t
    /\ a.captureOpts.t = "obj" =>
          /\ {a.captureOpts.f[i].k : i \in 1..Len(a.captureOpts.f)}
                = {b.captureOpts.f[i].k : i \in 1..Len(b.captureOpts.f)}
          /\ \A i \in 1..Len(a.captureOpts.f) :
                Get(b.captureOpts, a.captureOpts.f[i].k) = a.captureOpts.f[i].v

\* C25: generateKey gives two requests with the same url and the same fields
\* and values in viewport and capture options the same key, also when the
\* fields were inserted in a different order.
C25_KeyDeterministic ==
    (kpc = "done" /\ SameFieldsAndValues(req1, req2)) => key1 = key2

\* both keys are computed, for a request and for its copy with the viewport and
\* the capture options built in the reverse insertion order
C25_Witness ==
    /\ kpc = "done"
    /\ req1.captureOpts = BaseOptions
    /\ req2.captureOpts = ReversedOptions
    /\ req1.viewport = Desktop
    /\ req2.viewport = ReversedViewport(Desktop)
    /\ key1 = key2

(***************************************************************************)
(* C26                                                                     *)
(***************************************************************************)
\* critical > warning > info
SeverityRank(v) == CASE v = "critical" -> 3 [] v = "warning" -> 2 [] v = "info" -> 1

\* C26: the exit code is 1 when failOn is set and an issue of an analysis or
\* of a cross-viewport analysis has a severity at or above failOn, and 0 in
\* every other case, whether or not a page has errors.
C26_ExitCode ==
    output # <<>> =>
        LET all == input.analysisIssues \o input.crossIssues
            atOrAbove == /\ input.failOn # "undefined"
                         /\ \E i \in 1..Len(all) :
                               SeverityRank(all[i]) >= SeverityRank(input.failOn)
        IN  output.exitCode = IF atOrAbove THEN 1 ELSE 0

\* failOn is warning, the only issue at or above it is a critical issue of a
\* cross-viewport analysis, a page has errors, and the exit code is 1
C26_Witness ==
    /\ output # <<>>
    /\ input.failOn = "warning"
    /\ input.analysisIssues = <<"info">>
    /\ input.crossIssues = <<"critical">>
    /\ input.errors
    /\ output.exitCode = 1

(***************************************************************************)
(* C27, C28                                                                *)
(***************************************************************************)
\* C27: for an input larger than MAX_IMAGE_BYTES, what resizeIfNeeded returns
\* is at most MAX_IMAGE_BYTES large.
C27_SizeBound ==
    (output.pc = "returned" /\ input.bytes > MAX_IMAGE_BYTES) =>
        output.bytes <= MAX_IMAGE_BYTES

Abs(n) == IF n < 0 THEN 0 - n ELSE n

\* C28: for an input with a side above MAX_IMAGE_DIMENSION, the width and the
\* height that phase 1 resizes to are both at most MAX_IMAGE_DIMENSION, the
\* longer side is exactly MAX_IMAGE_DIMENSION, and each is the original side
\* times the common scale, rounded: newWidth / newHeight differs from
\* width / height by the two roundings at most.
C28_DimensionBound ==
    (output.pc \in {"phase2", "threw"}
     /\ (input.width > MAX_IMAGE_DIMENSION \/ input.height > MAX_IMAGE_DIMENSION)) =>
        /\ output.width <= MAX_IMAGE_DIMENSION
        /\ output.height <= MAX_IMAGE_DIMENSION
        /\ MAX_IMAGE_DIMENSION \in {output.width, output.height}
        /\ 2 * Abs(output.width * input.height - output.height * input.width)
              <= input.width + input.height

\* a 7801 x 20000 image has been resized in phase 1, to 3042 x 7800
C28_Witness ==
    /\ output.pc = "phase2"
    /\ input.width = 7801
    /\ input.height = 20000
    /\ output.width = 3042
    /\ output.height = 7800

(***************************************************************************)
(* C29                                                                     *)
(***************************************************************************)
\* the images that were captured for url in viewport under RunOptions: what
\* this run captures for the pair, raw or normalised, and what the earlier
\* run stored for it
CapturedFor(url, viewport) ==
    {Shot(url, viewport), resizeIfNeeded(Shot(url, viewport))}
        \cup (IF url = Urls[1] /\ viewport = Mobile THEN Images ELSE {})

\* C29: the bytes a task holds after a cache hit, which it copies to its
\* working path, were captured for the url, the viewport and the options of
\* that task.
C29_HitOwnPair ==
    \A t \in Tasks :
        tpc[t] = "restore" => tbuf[t] \in CapturedFor(TaskUrl(t), TaskViewport(t))

(***************************************************************************)
(* C30                                                                     *)
(***************************************************************************)
\* the screenshots of the page whose file is on disk
ExistingFiles(url) ==
    {i \in 1..Len(screenshots[url]) : <<url, screenshots[url][i]>> \in fileExists}

CrossViewportErrors(url) ==
    {i \in 1..Len(errors[url]) : errors[url][i].viewport = "cross-viewport"}

\* C30: no page has two comparison tasks; a comparison is in a provider
\* call, has a result or has an error only for a page with at least two
\* screenshot files on disk; and when run() returns, a page with fewer than
\* two has crossViewportAnalysis = null and no 'cross-viewport' error.
C30_PhaseBOnlyWithTwo ==
    /\ LET tasks == comparisonTasks
       IN  \A i, j \in 1..Len(tasks) : tasks[i].url = tasks[j].url => i = j
    /\ \A t \in DOMAIN limitActive :
          (t.phase = "B" /\ limitActive[t] >= 1) => Cardinality(ExistingFiles(t.url)) >= 2
    /\ \A u \in DOMAIN crossViewport :
          Cardinality(ExistingFiles(u)) < 2 =>
             crossViewport[u] = "null" /\ CrossViewportErrors(u) = {}

\* run() has returned: the first page, one of whose two screenshot files is
\* missing, has had a comparison task that returned null, and the second
\* page has been compared
C30_Witness ==
    /\ phase = "returned"
    /\ Len(screenshots[Urls[1]]) = 2
    /\ Cardinality(ExistingFiles(Urls[1])) = 1
    /\ Has(settled, ComparisonTask(Urls[1]))
    /\ settled[ComparisonTask(Urls[1])] = "null"
    /\ crossViewport[Urls[1]] = "null"
    /\ crossViewport[Urls[2]] = "analysis"

(***************************************************************************)
(* C31                                                                     *)
(***************************************************************************)
Min(a, b) == IF a <= b THEN a ELSE b

\* C31: a sleep is begun only after a failed attempt that is not the last,
\* never after a success; its delay after attempt i is
\* min(baseDelay * 2^(i-1) + j, maxDelay) for a jitter 0 <= j < baseDelay, so
\* it is at most maxDelay and at least min(baseDelay * 2^(i-1), maxDelay).
C31_BackoffDelay ==
    rpc = "sleep" =>
        /\ rAttempt < optsAttempts
        /\ retryOutcome = NoOutcome
        /\ lastError = FnError(invocations)
        /\ delay <= maxDelayMs
        /\ delay >= Min(baseDelayMs * 2^(rAttempt - 1), maxDelayMs)
        /\ \E j \in 0..(baseDelayMs - 1) :
              delay = Min(baseDelayMs * 2^(rAttempt - 1) + j, maxDelayMs)

\* the sleep after attempt 2 of 3 with baseDelay 3 and maxDelay 5: 3 * 2 + j
\* is cut to maxDelay
C31_Witness ==
    /\ rpc = "sleep"
    /\ optsAttempts = 3
    /\ baseDelayMs = 3
    /\ maxDelayMs = 5
    /\ rAttempt = 2
    /\ delay = 5

(***************************************************************************)
(* C32                                                                     *)
(***************************************************************************)
\* the step is the last step of a setCached or of a clearCache call: the
\* writeFile of its saveManifest completes
SaveManifestStep ==
    \E c \in DOMAIN cacheCall :
        /\ cacheCall[c].op \in {"set", "clear"}
        /\ cacheCall[c].step = "saveManifest"
        /\ cacheCall'[c] = IdleCall

\* C32: no step of a getCached call, whether it ends in a miss, a hit or the
\* removal of a stale entry, changes the manifest document on disk or the
\* image files; the document on disk changes only when a setCached or a
\* clearCache saves the manifest.
C32_GetCachedNeverWrites ==
    [][/\ (\E c \in Callers :
              \/ \E r \in CacheRequests : GetCachedBegin(c, r.key)
              \/ GetCachedRead(c))
          => UNCHANGED <<diskManifest, cacheFiles>>
       /\ diskManifest' # diskManifest => SaveManifestStep]_vars

\* a getCached(OldKey) has just removed the stale entry from the manifest in
\* memory while another caller is inside a setCached: the document on disk
\* still has the entry
C32_Witness ==
    /\ inited
    /\ ~disabled
    /\ lastGet.kind = "miss"
    /\ lastGet.key = OldKey
    /\ ~Has(manifest, OldKey)
    /\ ~Has(cacheFiles, FileName(OldKey))
    /\ diskManifest.kind = "doc"
    /\ Has(diskManifest.entries, OldKey)
    /\ \E o \in DOMAIN cacheCall : cacheCall[o].op = "set" /\ cacheCall[o].step = "saveManifest"

(***************************************************************************)
(* C33                                                                     *)
(***************************************************************************)
\* the step is the return of a clearCache call of caller c that no setCached
\* and no other clearCache has overlapped
ClearCacheReturns(c) ==
    /\ cacheCall[c].op = "clear"
    /\ cacheCall'[c] = IdleCall
    /\ cacheDirExists
    /\ returnedKeys = {}
    /\ \A o \in DOMAIN cacheCall \ {c} : cacheCall[o].op \notin {"set", "clear"}

\* C33: when clearCache() returns, the manifest in memory and the manifest
\* document on disk have no entries, and no step of clearCache removes an
\* image file; from then on an entry for k comes into the manifest only by
\* a setCached(k), and getCached(k) is a miss while there is none.
C33_ClearCacheEmpties ==
    [][/\ \A c \in Callers :
             ClearCacheReturns(c) =>
                 manifest' = EmptyMap /\ diskManifest' = Doc(EmptyMap)
       /\ \A c \in Callers :
             ((cacheCall[c].op = "clear") # (cacheCall'[c].op = "clear")) =>
                 cacheFiles' = cacheFiles
       /\ \A r \in CacheRequests :
             (inited /\ ~Has(manifest, r.key) /\ Has(manifest', r.key)) =>
                 \E c \in Callers : /\ cacheCall[c].op = "idle"
                                    /\ cacheCall'[c].op = "set"
                                    /\ cacheCall'[c].key = r.key
       /\ \A c \in Callers, r \in CacheRequests :
             (GetCachedBegin(c, r.key) /\ manifest = EmptyMap) => lastGet'.kind = "miss"]_vars

\* after a clearCache over a cache that held OldKey, a getCached(OldKey) has
\* missed although the image file is still there
C33_Witness ==
    /\ inited
    /\ \A c \in Callers : CallerFree(c)
    /\ manifest = EmptyMap
    /\ diskManifest = Doc(EmptyMap)
    /\ Has(cacheFiles, FileName(OldKey))
    /\ lastGet.kind = "miss"
    /\ lastGet.key = OldKey

(***************************************************************************)
(* C34                                                                     *)
(***************************************************************************)
\* C34: over a cache directory from which nothing but the cache removes
\* files, every entry of the manifest in memory names a file that exists in
\* the cache directory, whatever calls have been made and however the
\* setCached calls interleave.
C34_EntriesHaveFiles ==
    \A r \in CacheRequests :
        Has(manifest, r.key) => Has(cacheFiles, manifest[r.key].filePath)

\* the manifest in memory holds the entry the earlier run left and one that a
\* setCached has added, while another setCached has not yet returned
C34_Witness ==
    /\ \A r \in CacheRequests : Has(manifest, r.key)
    /\ \A c \in DOMAIN cacheCall : cacheCall[c].op = "set"
    /\ diskManifest = Doc(Put(EmptyMap, OldKey, ManifestEntry(Urls[1], Mobile, OldKey)))

(***************************************************************************)
(* C35                                                                     *)
(***************************************************************************)
\* the errors of page url that carry the viewport name n
ErrorsUnder(url, n) == {i \in 1..Len(errors[url]) : errors[url][i].viewport = n}

\* C35: an analysis is stored under a viewport name of a page only by the
\* task of that screenshot, when it has succeeded, and an error carries the
\* name only when the file was missing or that task has failed; and once
\* Phase A has completed, every screenshot entry has either its analysis or
\* exactly one error, never both and never neither.
C35_OneOutcomePerEntry ==
    \A u \in DOMAIN analyses :
        \A i \in 1..Len(screenshots[u]) :
            LET n    == screenshots[u][i]
                t    == AnalysisTask(u, n)
                ok   == Has(settled, t) /\ settled[t] = "ok"
                bad  == Has(settled, t) /\ settled[t] = "failed"
                gone == <<u, n>> \notin fileExists
                errs == Cardinality(ErrorsUnder(u, n))
            IN  /\ n \in analyses[u] <=> ok
                /\ errs = IF bad \/ gone THEN 1 ELSE 0
                /\ phase \in {"phaseB", "returned"} =>
                      \/ n \in analyses[u] /\ errs = 0
                      \/ n \notin analyses[u] /\ errs = 1

\* Phase A has completed: the first page has the error of its missing mobile
\* file and the analysis of desktop, the second page the error of a failed
\* analysis and the analysis of its other viewport
C35_Witness ==
    /\ phase = "phaseB"
    /\ <<Urls[1], "mobile">> \notin fileExists
    /\ analyses[Urls[1]] = {"desktop"}
    /\ Cardinality(ErrorsUnder(Urls[1], "mobile")) = 1
    /\ analyses[Urls[2]] = {"mobile"}
    /\ Cardinality(ErrorsUnder(Urls[2], "desktop")) = 1

(***************************************************************************)
(* C36                                                                     *)
(***************************************************************************)
\* C36: once browser.close() has been called and captureScreenshots has
\* returned or thrown, every capture task has finished, succeeded or failed:
\* none is queued or in flight.
C36_AllSettledBeforeClose ==
    ~BrowserOpen /\ runPc # "cache.init" =>
        \A t \in Tasks : tpc[t] \in {"done", "captureFailed", "cacheFailed"}

(***************************************************************************)
(* C37                                                                     *)
(***************************************************************************)
\* C37: the entry of a pair is recorded in the step that ends its task and is
\* not changed afterwards.  It has cached = true exactly when the task ends
\* after a cache hit, which a task reaches from its getCached call alone,
\* without having asked the browser for anything; and cached = false exactly
\* when the task ends after its setCached call, which it reaches only after
\* the browser has returned the screenshot and the normalised bytes have
\* been written to the working path and handed to setCached.
C37_CachedFlag ==
    [][\A t \in Tasks :
          LET e        == <<TaskUrl(t), TaskViewport(t).name>>
              filePath == WorkPath(TaskUrl(t), TaskViewport(t))
          IN  /\ tpc[t] # "done" => ~Has(resultEntries, e)
              /\ tpc[t] = "done" => tpc'[t] = "done" /\ resultEntries'[e] = resultEntries[e]
              /\ (tpc[t] # "done" /\ tpc'[t] = "done") =>
                    /\ tpc[t] \in {"restore", "saveManifest"}
                    /\ Has(resultEntries', e)
                    /\ resultEntries'[e].cached <=> tpc[t] = "restore"
                    /\ ~resultEntries'[e].cached <=> tpc[t] = "saveManifest"
              /\ (tpc[t] # "restore" /\ tpc'[t] = "restore") =>
                    tpc[t] = "getCached" /\ attempt[t] = 0
              /\ (tpc[t] # "getCached" /\ tpc'[t] = "getCached") => tpc[t] = "queued"
              /\ (tpc[t] # "saveManifest" /\ tpc'[t] = "saveManifest") =>
                    /\ tpc[t] = "persist"
                    /\ tbuf[t] = Shot(TaskUrl(t), TaskViewport(t))
                    /\ workFiles'[filePath] = resizeIfNeeded(tbuf[t])
                    /\ cacheFiles'[FileName(cacheKey[t])] = resizeIfNeeded(tbuf[t])
              /\ (tpc[t] # "persist" /\ tpc'[t] = "persist") => tpc[t] = "page"]_vars

\* captureScreenshots has returned: the mobile entry of the first page is
\* cached, the mobile entry of the second page was captured
C37_Witness ==
    /\ runPc = "analysis"
    /\ \A t \in Tasks : tpc[t] = "done"
    /\ resultEntries[<<Urls[1], "mobile">>].cached
    /\ ~resultEntries[<<Urls[2], "mobile">>].cached
    /\ workFiles[WorkPath(Urls[2], Mobile)] = Shot(Urls[2], Mobile)

(***************************************************************************)
(* C38                                                                     *)
(***************************************************************************)
\* the step in which the comparison of page url fails for good
ComparisonFails(url) ==
    /\ ~Has(settled, ComparisonTask(url))
    /\ Has(settled', ComparisonTask(url))
    /\ settled'[ComparisonTask(url)] = "failed"

\* C38: the comparison of a page fails for good only in its last attempt;
\* that step appends one error with the viewport 'cross-viewport' to the
\* errors of the page and changes neither its analyses, nor its
\* crossViewportAnalysis, which is null, nor anything of another page; and
\* the page keeps exactly that one 'cross-viewport' error and the null.
C38_ComparisonFailureFrame ==
    [][\A u \in DOMAIN crossViewport :
          /\ ComparisonFails(u) =>
                /\ limitActive[ComparisonTask(u)] = AnalysisAttempts
                /\ Len(errors'[u]) = Len(errors[u]) + 1
                /\ SubSeq(errors'[u], 1, Len(errors[u])) = errors[u]
                /\ errors'[u][Len(errors'[u])].viewport = "cross-viewport"
                /\ \A o \in DOMAIN errors \ {u} : errors'[o] = errors[o]
                /\ analyses' = analyses
                /\ crossViewport' = crossViewport
          /\ (Has(settled, ComparisonTask(u)) /\ settled[ComparisonTask(u)] = "failed") =>
                /\ Cardinality(CrossViewportErrors(u)) = 1
                /\ crossViewport[u] = "null"
                /\ crossViewport'[u] = "null"]_vars

\* run() has returned: the comparison of the second page has failed, its two
\* analyses are there, and the first page has been compared
C38_Witness ==
    /\ phase = "returned"
    /\ Has(settled, ComparisonTask(Urls[2]))
    /\ settled[ComparisonTask(Urls[2])] = "failed"
    /\ analyses[Urls[2]] = {"mobile", "desktop"}
    /\ crossViewport[Urls[2]] = "null"
    /\ Len(errors[Urls[2]]) = 1
    /\ crossViewport[Urls[1]] = "analysis"

(***************************************************************************)
(* C39                                                                     *)
(***************************************************************************)
\* C39: when every call eventually returns or fails, every capture task
\* eventually starts and settles, succeeded or failed, and the run goes on to
\* the analysis.
C39_RunProgresses ==
    <>(/\ \A t \in Tasks : tpc[t] \in {"done", "captureFailed", "cacheFailed"}
       /\ runPc = "analysis")

(***************************************************************************)
(* C8, C9, C10                                                             *)
(***************************************************************************)
\* C8: once setCached(key, ...) has returned, the manifest document on disk
\* holds the entry for key, also after the other setCached calls running at
\* the same time have finished writing.
C8_SetCachedDurable ==
    \A k \in returnedKeys : diskManifest.kind = "doc" /\ Has(diskManifest.entries, k)

\* a getCached(k) has just returned to the caller whose setCached(k, bytes) it
\* directly follows
RoundTripDone ==
    /\ lastGet.caller # 0
    /\ roundTrip.caller = lastGet.caller
    /\ roundTrip.key = lastGet.key

\* C9: on an enabled, initialised cache, setCached(k, bytes, url, viewport)
\* followed by getCached(k) returns the bytes that were passed in.
C9_RoundTrip ==
    (~disabled /\ inited /\ RoundTripDone)
        => (lastGet.kind = "hit" /\ lastGet.bytes = roundTrip.bytes)

\* a round trip over a file that held other bytes, with another caller still
\* inside a setCached
C9_Witness ==
    /\ ~disabled /\ inited /\ RoundTripDone
    /\ lastGet.kind = "hit"
    /\ lastGet.bytes = "png-B"
    /\ \E o \in DOMAIN cacheCall : cacheCall[o].op = "set" /\ cacheCall[o].step = "saveManifest"

\* the step is no step of a clearCache call
NoClearStep ==
    \A c \in DOMAIN cacheCall : cacheCall[c].op # "clear" /\ cacheCall'[c].op # "clear"

\* C10: with the cache constructed as disabled, every getCached reports a miss
\* and every setCached is a no-op: no image file is written, no manifest entry
\* changes and the manifest document on disk stays as it is.
C10_DisabledNoOp ==
    [][(disabled /\ inited /\ NoClearStep) =>
            /\ lastGet'.kind \in {"none", "miss"}
            /\ cacheFiles' = cacheFiles
            /\ manifest' = manifest
            /\ diskManifest' = diskManifest]_vars

====
